---------------------------- MODULE Spec2Model ----------------------------
(***************************************************************************)
(* Verification model of two subsystems of bedrock-engineer:               *)
(*                                                                         *)
(*   - CommandService (src/main/api/command/commandService.ts): the        *)
(*     allow-list matcher and the live-session tables of the interactive   *)
(*     command execution engine;                                           *)
(*   - the MCP tool-server registry (src/preload/mcp/index.ts): change     *)
(*     detection, the in-flight initialization guard, tool listing and     *)
(*     tool invocation.                                                    *)
(*                                                                         *)
(* A command string is represented by the sequence of tokens that          *)
(* String.prototype.split(' ') yields for it (never empty: ''.split(' ')   *)
(* is ['']).                                                               *)
(***************************************************************************)
EXTENDS Naturals, Integers, Sequences, FiniteSets, TLC

VARIABLES
    \* ---- CommandService ------------------------------------------------
    config,            \* this.config: allowedCommands is a list of patterns or undefined
    runningProcesses,  \* Map<number, DetachedProcessInfo>: pid -> command
    processStates,     \* Map<number, ProcessState>: pid -> state
    closures,          \* per executeCommand call (one per pid): isCompleted, promise, timer
    os,                \* the operating system's view of every spawned process
    spawnCount,        \* number of spawn() calls made so far
    lastCall,          \* the most recent API call and how its promise settled
    request            \* the argument of the pure function under study: a command line
                       \* (allow-list matcher) or the texts of the two streams (classifiers)
                       \* or a configuration list, or the store an operation works on
                       \* (the agent store, the chat session store)

cmdVars == <<config, runningProcesses, processStates, closures, os, spawnCount, lastCall,
             request>>

VARIABLES
    \* ---- MCP registry (module state of preload/mcp/index.ts) -----------
    clients,                    \* let clients: { name, client }[]
    lastMcpServerConfigHash,    \* cached hash (null, 'empty' or a JSON text)
    lastMcpServerLength,        \* cached number of servers
    lastMcpServerNames,         \* cached sorted server names
    initializationInProgress,   \* the in-flight promise (0 stands for null)
    promises,                   \* the activation routines started so far, in order
    callers,                    \* the API calls made so far, in order
    ready,                      \* microtask queue: suspended calls whose await has settled
    draining,                   \* the microtask queue has begun to run its reactions
    launches,                   \* number of MCPClient.fromCommand invocations so far
    toolHeap                    \* the tool descriptor objects, by reference

mcpVars == <<clients, lastMcpServerConfigHash, lastMcpServerLength, lastMcpServerNames,
             initializationInProgress, promises, callers, ready, draining, launches,
             toolHeap>>

vars == <<cmdVars, mcpVars>>

--------------------------------------------------------------------------
(* Bounds of the model *)

MaxArgs == 2       \* longest argument list of a pattern or of a requested command
MaxPatterns == 1   \* longest allow-list
MaxPid == 2        \* number of processes spawned in one behaviour

--------------------------------------------------------------------------
(* Command lines and allow-lists *)

WILDCARD == "*"

Tokens == {"gh", "pr", WILDCARD}

SeqsUpTo(S, n) == UNION {[1..k -> S] : k \in 0..n}

\* every command string with at most MaxArgs arguments, as its split(' ') parts
CommandLines == UNION {[1..k -> Tokens] : k \in 1..(MaxArgs + 1)}

\* CommandPatternConfig[]: only the pattern field is read by the service
AllowLists == SeqsUpTo(CommandLines, MaxPatterns)

\* CommandConfig: allowedCommands may be undefined (defined = FALSE)
Configs == [defined : {TRUE}, allowedCommands : AllowLists]
               \cup {[defined |-> FALSE, allowedCommands |-> <<>>]}

Pids == 1..MaxPid

\* the allow-lists the service is constructed with when its sessions are studied:
\* undefined, the empty list and `gh pr *` (the shipped ones), and a literal pattern
ServiceConfigs ==
    {[defined |-> FALSE, allowedCommands |-> <<>>],
     [defined |-> TRUE,  allowedCommands |-> <<>>],
     [defined |-> TRUE,  allowedCommands |-> << <<"gh", "pr", WILDCARD>> >>],
     [defined |-> TRUE,  allowedCommands |-> << <<"gh", "pr">>, <<"pr">> >>]}

\* the command lines submitted to executeCommand when its sessions are studied
ServiceCommands == {<<"gh", "pr">>, <<"gh", "pr", "gh", "pr">>, <<"gh">>}

\* commandService.ts:68-77
parseCommandPattern(commandStr) ==
    [command  |-> Head(commandStr),
     args     |-> Tail(commandStr),
     wildcard |-> \E i \in 1..Len(commandStr) : commandStr[i] = WILDCARD]

\* variant: positional matching only, the early return on a wildcard pattern removed
PatternAllowsPositional(allowedCmd, executeParts) ==
    LET allowedParts == parseCommandPattern(allowedCmd) IN
    /\ allowedParts.command = executeParts.command
    /\ Len(allowedParts.args) = Len(executeParts.args)
    /\ \A index \in 1..Len(allowedParts.args) :
            \/ allowedParts.args[index] = WILDCARD
            \/ allowedParts.args[index] = executeParts.args[index]

\* variant: the argument-count comparison removed, so that the pattern's arguments
\* only have to be a prefix of the requested ones
PatternAllowsPrefix(allowedCmd, executeParts) ==
    LET allowedParts == parseCommandPattern(allowedCmd) IN
    IF allowedParts.command # executeParts.command THEN FALSE
    ELSE IF allowedParts.wildcard THEN TRUE
    ELSE \A index \in 1..Len(allowedParts.args) :
            \/ allowedParts.args[index] = WILDCARD
            \/ /\ index <= Len(executeParts.args)
               /\ allowedParts.args[index] = executeParts.args[index]

\* variant: the wildcard test made before the command comparison
PatternAllowsWildcardFirst(allowedCmd, executeParts) ==
    LET allowedParts == parseCommandPattern(allowedCmd) IN
    IF allowedParts.wildcard THEN TRUE
    ELSE IF allowedParts.command # executeParts.command THEN FALSE
    ELSE IF Len(allowedParts.args) # Len(executeParts.args) THEN FALSE
    ELSE \A index \in 1..Len(allowedParts.args) :
            \/ allowedParts.args[index] = WILDCARD
            \/ allowedParts.args[index] = executeParts.args[index]

\* the callback of allowedCommands.some(...), commandService.ts:85-106
PatternAllows(allowedCmd, executeParts) ==
    LET allowedParts == parseCommandPattern(allowedCmd) IN
    IF allowedParts.command # executeParts.command THEN FALSE
    ELSE IF allowedParts.wildcard THEN TRUE
    ELSE IF Len(allowedParts.args) # Len(executeParts.args) THEN FALSE
    ELSE \A index \in 1..Len(allowedParts.args) :
            \/ allowedParts.args[index] = WILDCARD
            \/ allowedParts.args[index] = executeParts.args[index]

\* this.config.allowedCommands || [], commandService.ts:83
allowedCommandsOf(cfg) == IF cfg.defined THEN cfg.allowedCommands ELSE <<>>

\* variant: an empty or undefined allow-list read as "no restriction"
isCommandAllowedOpenByDefault(commandToExecute) ==
    LET executeParts    == parseCommandPattern(commandToExecute)
        allowedCommands == allowedCommandsOf(config)
    IN  \/ Len(allowedCommands) = 0
        \/ \E i \in 1..Len(allowedCommands) :
                PatternAllows(allowedCommands[i], executeParts)

\* commandService.ts:79-107
isCommandAllowed(commandToExecute) ==
    LET executeParts    == parseCommandPattern(commandToExecute)
        allowedCommands == allowedCommandsOf(config)
    IN  \E i \in 1..Len(allowedCommands) :
            PatternAllows(allowedCommands[i], executeParts)

--------------------------------------------------------------------------
(* Live-session tables *)

Remove(f, k) == [x \in (DOMAIN f) \ {k} |-> f[x]]

Put(f, k, v) == [x \in (DOMAIN f) \cup {k} |-> IF x = k THEN v ELSE f[x]]

EmptyMap == [x \in {} |-> 0]

\* commandService.ts:120-130
initializeProcessState(pid) ==
    Put(processStates, pid, [isRunning |-> TRUE, hasError |-> FALSE, code |-> <<>>])

NoCall == [op |-> "none", command |-> <<>>, pid |-> 0, outcome |-> "none"]

\* preload/mcp/index.ts:17-23
McpStart ==
    /\ clients = <<>>
    /\ lastMcpServerConfigHash = [kind |-> "null", json |-> <<>>]
    /\ lastMcpServerLength = 0
    /\ lastMcpServerNames = <<>>
    /\ initializationInProgress = 0
    /\ promises = <<>>
    /\ callers = <<>>
    /\ ready = <<>>
    /\ draining = FALSE
    /\ launches = 0
    /\ toolHeap = <<>>

CmdInit ==
    /\ McpStart
    /\ config \in ServiceConfigs
    /\ request = <<>>
    /\ runningProcesses = EmptyMap
    /\ processStates = EmptyMap
    /\ closures = EmptyMap
    /\ os = EmptyMap
    /\ spawnCount = 0
    /\ lastCall = NoCall

\* executeCommand, synchronous part: commandService.ts:163-198
\* spawn() either yields a process with a fresh pid or one whose pid is undefined
executeCommand(command) ==
    /\ UNCHANGED mcpVars
    /\ IF ~isCommandAllowed(command)
       THEN /\ lastCall' = [op |-> "executeCommand", command |-> command, pid |-> 0,
                            outcome |-> "rejected: Command not allowed"]
            /\ UNCHANGED <<config, runningProcesses, processStates, closures, os,
                           spawnCount, request>>
       ELSE /\ spawnCount < MaxPid
            /\ spawnCount' = spawnCount + 1
            /\ \/ /\ lastCall' = [op |-> "executeCommand", command |-> command, pid |-> 0,
                                  outcome |-> "rejected: Failed to start process"]
                  /\ UNCHANGED <<config, runningProcesses, processStates, closures, os,
                                 request>>
               \/ LET pid == spawnCount + 1 IN
                  /\ processStates' = initializeProcessState(pid)
                  /\ runningProcesses' = Put(runningProcesses, pid, command)
                  /\ closures' = Put(closures, pid,
                                     [isCompleted |-> FALSE, promise |-> "pending",
                                      timer |-> TRUE])
                  /\ os' = Put(os, pid, "alive")
                  /\ lastCall' = [op |-> "executeCommand", command |-> command, pid |-> pid,
                                  outcome |-> "pending"]
                  /\ UNCHANGED <<config, request>>

ExecuteCommand == \E command \in ServiceCommands : executeCommand(command)

\* cleanup + settle, commandService.ts:200-211 and 254-266 (no output was produced:
\* the output-classification branches of completeWithSuccess are not taken)
complete(pid, how) ==
    IF ~closures[pid].isCompleted
    THEN /\ closures' = [closures EXCEPT ![pid].isCompleted = TRUE,
                                         ![pid].promise =
                                              IF @ = "pending" THEN how ELSE @]
         /\ runningProcesses' = Remove(runningProcesses, pid)
         /\ processStates' = Remove(processStates, pid)
    ELSE UNCHANGED <<closures, runningProcesses, processStates>>

\* process.on('exit'), commandService.ts:319-333
ExitEvent ==
    \E pid \in DOMAIN os, code \in {0, 1} :
        /\ os[pid] # "exited"
        /\ os' = [os EXCEPT ![pid] = "exited"]
        /\ IF pid \in DOMAIN processStates
           THEN complete(pid, IF code = 0 /\ os[pid] = "alive" THEN "resolved" ELSE "rejected")
           ELSE UNCHANGED <<closures, runningProcesses, processStates>>
        /\ UNCHANGED <<config, spawnCount, lastCall, request>>
        /\ UNCHANGED mcpVars

\* setTimeout callback, commandService.ts:337-356
TimeoutEvent ==
    \E pid \in DOMAIN closures :
        /\ closures[pid].timer
        /\ IF ~closures[pid].isCompleted /\ pid \in DOMAIN processStates
           THEN /\ closures' = [closures EXCEPT ![pid].isCompleted = TRUE,
                                                ![pid].timer = FALSE,
                                                ![pid].promise =
                                                    IF @ = "pending" THEN "rejected" ELSE @]
                /\ runningProcesses' = Remove(runningProcesses, pid)
                /\ processStates' = Remove(processStates, pid)
           ELSE /\ closures' = [closures EXCEPT ![pid].timer = FALSE]
                /\ UNCHANGED <<runningProcesses, processStates>>
        /\ UNCHANGED <<config, os, spawnCount, lastCall, request>>
        /\ UNCHANGED mcpVars

\* stopProcess, commandService.ts:490-502; process.kill(-pid) succeeds or throws
StopProcess ==
    \E pid \in Pids :
      /\ UNCHANGED mcpVars
      /\ IF pid \in DOMAIN runningProcesses
        THEN \/ /\ os' = [os EXCEPT ![pid] = IF @ = "alive" THEN "signalled" ELSE @]
                /\ runningProcesses' = Remove(runningProcesses, pid)
                /\ processStates' = Remove(processStates, pid)
                /\ lastCall' = [op |-> "stopProcess", command |-> <<>>, pid |-> pid,
                                outcome |-> "resolved"]
                /\ UNCHANGED <<config, closures, spawnCount, request>>
             \/ /\ lastCall' = [op |-> "stopProcess", command |-> <<>>, pid |-> pid,
                                outcome |-> "rejected: Failed to stop process"]
                /\ UNCHANGED <<config, runningProcesses, processStates, closures, os, spawnCount, request>>
        ELSE /\ lastCall' = [op |-> "stopProcess", command |-> <<>>, pid |-> pid,
                             outcome |-> "resolved"]
             /\ UNCHANGED <<config, runningProcesses, processStates, closures, os, spawnCount, request>>

CmdNext == ExecuteCommand \/ ExitEvent \/ TimeoutEvent \/ StopProcess

SpecCmd == CmdInit /\ [][CmdNext]_vars

--------------------------------------------------------------------------
(* The read accessors of CommandService.  An array handed to a caller is a   *)
(* record of its items and of whether it is the service's own array object   *)
(* (alias), in which case a change the caller makes to it is a change of     *)
(* the service's state.                                                      *)

RECURSIVE ValuesOf(_)
\* Array.from(map.values()): the values in insertion order, which is the order of the
\* pids as the processes were spawned
ValuesOf(map) ==
    IF DOMAIN map = {} THEN <<>>
    ELSE LET last == CHOOSE k \in DOMAIN map : \A x \in DOMAIN map : x <= k IN
         Append(ValuesOf(Remove(map, last)), map[last])

\* commandService.ts:504-506
getRunningProcesses ==
    [alias |-> FALSE, mutated |-> FALSE, items |-> ValuesOf(runningProcesses)]

\* variant: the configured array itself is returned
getAllowedCommandsNoCopy ==
    [alias |-> config.defined, mutated |-> FALSE, items |-> allowedCommandsOf(config)]

\* commandService.ts:508-510
getAllowedCommands ==
    [alias |-> FALSE, mutated |-> FALSE, items |-> allowedCommandsOf(config)]

GetRunningProcesses ==
    /\ lastCall' = [op |-> "getRunningProcesses", command |-> <<>>, pid |-> 0,
                    outcome |-> getRunningProcesses]
    /\ UNCHANGED <<config, runningProcesses, processStates, closures, os, spawnCount,
                   request>>
    /\ UNCHANGED mcpVars

GetAllowedCommands ==
    /\ lastCall' = [op |-> "getAllowedCommands", command |-> <<>>, pid |-> 0,
                    outcome |-> getAllowedCommands]
    /\ UNCHANGED <<config, runningProcesses, processStates, closures, os, spawnCount,
                   request>>
    /\ UNCHANGED mcpVars

\* what a caller pushes on an array it was given
Pushed == <<"pushed">>

\* the caller changes the array it was given: push(...) or pop()
MutateReturned ==
    /\ lastCall.op \in {"getRunningProcesses", "getAllowedCommands"}
    /\ ~lastCall.outcome.mutated
    /\ \E items \in {Append(lastCall.outcome.items, Pushed)}
                      \cup (IF lastCall.outcome.items = <<>> THEN {}
                            ELSE {SubSeq(lastCall.outcome.items, 1,
                                         Len(lastCall.outcome.items) - 1)}) :
          /\ lastCall' = [lastCall EXCEPT !.outcome.items = items, !.outcome.mutated = TRUE]
          /\ IF lastCall.outcome.alias
             THEN config' = [config EXCEPT !.allowedCommands = items]
             ELSE UNCHANGED config
    /\ UNCHANGED <<runningProcesses, processStates, closures, os, spawnCount, request>>
    /\ UNCHANGED mcpVars

AccessNext ==
    \/ ExecuteCommand
    \/ ExitEvent
    \/ TimeoutEvent
    \/ StopProcess
    \/ GetRunningProcesses
    \/ GetAllowedCommands
    \/ MutateReturned

SpecAccess == CmdInit /\ [][AccessNext]_vars

--------------------------------------------------------------------------
(* The allow-list matcher on its own: every allow-list and every command line *)

AllowInit ==
    /\ McpStart
    /\ config \in Configs
    /\ request \in CommandLines
    /\ runningProcesses = EmptyMap
    /\ processStates = EmptyMap
    /\ closures = EmptyMap
    /\ os = EmptyMap
    /\ spawnCount = 0
    /\ lastCall = NoCall

\* the guard of executeCommand, commandService.ts:165
CheckAllowed ==
    /\ lastCall.op = "none"
    /\ lastCall' = [op |-> "isCommandAllowed", command |-> request, pid |-> 0,
                    outcome |-> IF isCommandAllowed(request) THEN "allowed" ELSE "denied"]
    /\ UNCHANGED <<config, runningProcesses, processStates, closures, os, spawnCount, request>>
    /\ UNCHANGED mcpVars

AllowNext == CheckAllowed

SpecAllow == AllowInit /\ [][AllowNext]_vars


--------------------------------------------------------------------------
(* MCP tool-server registry: configurations and change detection *)

MaxCalls == 3      \* number of initMcpFromAgentConfig calls made in one behaviour
MaxToolCalls == 2  \* number of getMcpToolSpecs / tryExecuteMcpTool calls in one behaviour

\* a command or an argument that is not a string (such a config fails configSchema)
NotAString == "<not a string>"

\* server.env: undefined, or an object whose entries are <<key, value>> pairs in
\* insertion order
NoEnv == [defined |-> FALSE, entries |-> <<>>]

Env(entries) == [defined |-> TRUE, entries |-> entries]

\* McpServerConfig; server names 1 and 2 stand for two names in the order that
\* localeCompare and the default sort both give them
McpServerConfig(name, description, command, args, env) ==
    [name |-> name, description |-> description, command |-> command, args |-> args,
     env |-> env]

\* a server without description, arguments and environment
Server(name, command) == McpServerConfig(name, "", command, <<>>, NoEnv)

\* the config lists passed by the callers
ConfigSets ==
    {<<>>,
     <<Server(2, "x"), Server(1, "x")>>,
     <<Server(1, "x"), Server(1, "y")>>,
     <<Server(1, "y"), Server(1, "x")>>}

\* the config lists passed to getMcpToolSpecs and tryExecuteMcpTool
ToolConfigSets ==
    {<<>>,
     <<Server(1, "x")>>,
     <<Server(1, "x"), Server(2, "x")>>,
     <<Server(2, NotAString)>>}

RECURSIVE InsertByName(_, _)
\* insertion behind every element whose name is not greater: equal names keep their order
InsertByName(sorted, server) ==
    IF sorted = <<>> THEN <<server>>
    ELSE IF Head(sorted).name <= server.name
         THEN <<Head(sorted)>> \o InsertByName(Tail(sorted), server)
         ELSE <<server>> \o sorted

RECURSIVE SortByName(_)
\* [...servers].sort((a, b) => a.name.localeCompare(b.name)): a stable sort
SortByName(servers) ==
    IF servers = <<>> THEN <<>>
    ELSE InsertByName(SortByName(SubSeq(servers, 1, Len(servers) - 1)),
                      servers[Len(servers)])

RECURSIVE InsertName(_, _)
InsertName(sorted, name) ==
    IF sorted = <<>> THEN <<name>>
    ELSE IF Head(sorted) <= name
         THEN <<Head(sorted)>> \o InsertName(Tail(sorted), name)
         ELSE <<name>> \o sorted

RECURSIVE SortNames(_)
\* servers.map((s) => s.name).sort()
SortNames(servers) ==
    IF servers = <<>> THEN <<>>
    ELSE InsertName(SortNames(SubSeq(servers, 1, Len(servers) - 1)),
                    servers[Len(servers)].name)

\* variant: the description is part of the essential settings
essentialConfigWithDescription(server) ==
    [name |-> server.name, command |-> server.command, args |-> server.args,
     env |-> server.env, description |-> server.description]

\* the essential settings of one server, preload/mcp/index.ts:38-44: the env key is
\* present only for an env object that has at least one key
essentialConfig(server) ==
    [name |-> server.name, command |-> server.command, args |-> server.args,
     env |-> IF server.env.defined /\ Len(server.env.entries) > 0
             THEN [included |-> TRUE, entries |-> server.env.entries]
             ELSE [included |-> FALSE, entries |-> <<>>]]

\* variant: the servers are hashed in the order given, without sorting
generateConfigHashUnsorted(servers) ==
    IF Len(servers) = 0
    THEN [kind |-> "empty", json |-> <<>>]
    ELSE [kind |-> "json",
          json |-> [i \in 1..Len(servers) |-> essentialConfig(servers[i])]]

\* preload/mcp/index.ts:29-47; the JSON text is represented by the value it encodes
generateConfigHash(servers) ==
    IF Len(servers) = 0
    THEN [kind |-> "empty", json |-> <<>>]
    ELSE LET sortedServers == SortByName(servers) IN
         [kind |-> "json",
          json |-> [i \in 1..Len(sortedServers) |-> essentialConfig(sortedServers[i])]]

\* variant: only the number of servers and their names are compared
hasConfigChangedNamesOnly(servers) ==
    IF Len(servers) # lastMcpServerLength THEN TRUE
    ELSE IF Len(servers) = 0 /\ lastMcpServerLength = 0 THEN FALSE
    ELSE SortNames(servers) # lastMcpServerNames

\* variant: the configuration is always taken as changed
hasConfigChangedAlways(servers) == TRUE

\* preload/mcp/index.ts:53-79
hasConfigChanged(servers) ==
    IF Len(servers) # lastMcpServerLength THEN TRUE
    ELSE IF Len(servers) = 0 /\ lastMcpServerLength = 0 THEN FALSE
    ELSE IF SortNames(servers) # lastMcpServerNames THEN TRUE
    ELSE generateConfigHash(servers) # lastMcpServerConfigHash

\* preload/mcp/index.ts:84-89
updateConfigCache(servers) ==
    /\ lastMcpServerConfigHash' = generateConfigHash(servers)
    /\ lastMcpServerLength' = Len(servers)
    /\ lastMcpServerNames' = SortNames(servers)

\* configData (keyed by name: a later entry replaces an earlier one of the same name)
\* and configSchema.safeParse, preload/mcp/index.ts:6-15 and 146-161: command is a
\* string (z.string() accepts the empty one) and args an array of strings
configSchemaAccepts(servers) ==
    \A i \in 1..Len(servers) :
        (\A j \in (i + 1)..Len(servers) : servers[j].name # servers[i].name)
            => /\ servers[i].command # NotAString
               /\ \A k \in 1..Len(servers[i].args) : servers[i].args[k] # NotAString

--------------------------------------------------------------------------
(* MCP tool-server registry: tool descriptors *)

\* a tool name is a sequence of parts; <<>> is a descriptor without toolSpec.name
MCP_PREFIX == "mcp_"

NoTools == {<<>>}

\* the tool lists a launched server may advertise (client.tools)
ToolLists == {<< <<>> >>, << <<"t1">> >>}

\* the tool names callers ask for
ToolNames == {<<"t1">>, <<"t2">>}

\* what a caller may overwrite a descriptor's name with
Scribble == <<"scribbled">>

\* `mcp_${name}` when the descriptor has a name, preload/mcp/index.ts:222-224
prefixed(name) == IF name # <<>> THEN <<MCP_PREFIX>> \o name ELSE name

RECURSIVE toolIdsOf(_)
\* clients.flatMap(({ client }) => client.tools): the descriptor objects of the registry
toolIdsOf(clientList) ==
    IF clientList = <<>> THEN <<>>
    ELSE Head(clientList).tools \o toolIdsOf(Tail(clientList))

\* variant: the prefix is written into the registry's own descriptor objects, which
\* are returned themselves
toolSpecsInPlace(heap, ids) ==
    [heap |-> [k \in 1..Len(heap) |->
                  IF \E n \in 1..Len(ids) : ids[n] = k THEN prefixed(heap[k]) ELSE heap[k]],
     ids  |-> ids]

\* preload/mcp/index.ts:218-227: every descriptor is copied by
\* JSON.parse(JSON.stringify(tool)) into a new object, and the copy is renamed
toolSpecsOf(heap, ids) ==
    [heap |-> heap \o [n \in 1..Len(ids) |-> prefixed(heap[ids[n]])],
     ids  |-> [n \in 1..Len(ids) |-> Len(heap) + n]]

\* variant: the lookup compares the prefixed name
advertisesPrefixed(client, heap, toolName) ==
    \E n \in 1..Len(client.tools) : prefixed(heap[client.tools[n]]) = toolName

\* client.tools.find((tool) => tool.toolSpec?.name == toolName), preload/mcp/index.ts:252
advertises(client, heap, toolName) ==
    \E n \in 1..Len(client.tools) : heap[client.tools[n]] = toolName

--------------------------------------------------------------------------
(* MCP tool-server registry: calls, the in-flight guard and the event loop *)

NoResult == [found |-> FALSE, success |-> FALSE, error |-> FALSE, ids |-> <<>>]

\* the { name, client } objects of a list, by the activation and position that made them
identities(clientList) ==
    [i \in 1..Len(clientList) |-> <<clientList[i].gen, clientList[i].idx>>]

SetCaller(c, rec) ==
    IF c = Len(callers) + 1 THEN Append(callers, rec) ELSE [callers EXCEPT ![c] = rec]

InFlight == {p \in 1..Len(promises) : promises[p].state \in {"cleanup", "launching"}}

\* initMcpFromAgentConfig returns or throws (preload/mcp/index.ts:99, 112, 202-205):
\* a direct caller is done; getMcpToolSpecs / tryExecuteMcpTool resume after their
\* `await initMcpFromAgentConfig(...)` in a later microtask, or reject with the error
leaveInit(c, rec, threw, queue) ==
    LET out == [rec EXCEPT !.seen = identities(clients), !.promise = 0] IN
    IF threw
    THEN /\ callers' = SetCaller(c, [out EXCEPT !.pc = "thrown"])
         /\ ready' = queue
    ELSE IF rec.api = "init"
    THEN /\ callers' = SetCaller(c, [out EXCEPT !.pc = "done"])
         /\ ready' = queue
    ELSE /\ callers' = SetCaller(c, [out EXCEPT !.pc = "afterInit"])
         /\ ready' = Append(queue, c)

\* `await initializationInProgress`, preload/mcp/index.ts:103-106: the caller is resumed
\* when the promise settles, at once in a later microtask when it has settled already
awaitInFlight(c, rec, queue) ==
    LET p == initializationInProgress IN
    /\ callers' = SetCaller(c, [rec EXCEPT !.pc = "waiting", !.promise = p])
    /\ IF promises[p].state \in {"resolved", "rejected"}
       THEN /\ ready' = Append(queue, c)
            /\ UNCHANGED promises
       ELSE /\ ready' = queue
            /\ promises' = [promises EXCEPT ![p].waiters = Append(@, c)]
    /\ UNCHANGED <<clients, lastMcpServerConfigHash, lastMcpServerLength,
                   lastMcpServerNames, initializationInProgress, launches, toolHeap>>

\* variant: the guard is tested again before a caller starts its own routine, so that
\* a caller resumed behind another one waits for the routine that one has started
startWhenIdle(c, rec, queue) ==
    IF initializationInProgress # 0 /\ promises[initializationInProgress].owner # c
       /\ promises[initializationInProgress].state \in {"cleanup", "launching"}
    THEN awaitInFlight(c, rec, queue)
    ELSE /\ promises' = Append(promises, [owner |-> c, servers |-> rec.servers,
                                          state |-> "cleanup", waiters |-> <<c>>])
         /\ initializationInProgress' = Len(promises) + 1
         /\ clients' = [i \in 1..Len(clients) |->
                           [clients[i] EXCEPT !.cleanupCalls = @ + 1]]
         /\ callers' = SetCaller(c, [rec EXCEPT !.pc = "awaitOwn",
                                                !.promise = Len(promises) + 1])
         /\ ready' = queue
         /\ UNCHANGED <<lastMcpServerConfigHash, lastMcpServerLength, lastMcpServerNames,
                        launches, toolHeap>>

\* preload/mcp/index.ts:120-135 and 194: the routine is started and stored in
\* initializationInProgress, cleanup() is invoked on every current client, the routine
\* suspends at `await Promise.all(...)` and its caller at `await initializationInProgress`
startActivation(c, rec, queue) ==
    /\ promises' = Append(promises, [owner |-> c, servers |-> rec.servers,
                                     state |-> "cleanup", waiters |-> <<c>>])
    /\ initializationInProgress' = Len(promises) + 1
    /\ clients' = [i \in 1..Len(clients) |-> [clients[i] EXCEPT !.cleanupCalls = @ + 1]]
    /\ callers' = SetCaller(c, [rec EXCEPT !.pc = "awaitOwn", !.promise = Len(promises) + 1])
    /\ ready' = queue
    /\ UNCHANGED <<lastMcpServerConfigHash, lastMcpServerLength, lastMcpServerNames,
                   launches, toolHeap>>

unchangedRegistry ==
    UNCHANGED <<clients, lastMcpServerConfigHash, lastMcpServerLength, lastMcpServerNames,
                initializationInProgress, promises, launches, toolHeap>>

\* initMcpFromAgentConfig up to its first suspension, preload/mcp/index.ts:92-124
initMcpFromAgentConfig(c, rec, queue) ==
    IF ~hasConfigChanged(rec.servers)
    THEN leaveInit(c, rec, FALSE, queue) /\ unchangedRegistry
    ELSE IF initializationInProgress # 0
    THEN awaitInFlight(c, rec, queue)
    ELSE startActivation(c, rec, queue)

Finished(rec) == rec.pc \in {"done", "thrown"}

\* the record of a call: its arguments, where it stands (pc), the promise it awaits,
\* the client list it saw when initMcpFromAgentConfig returned (seen), the client whose
\* callTool it invoked (called), how callTool settled (toolCall), its result, and
\* whether an earlier call was still unfinished when it was made (concurrent)
NewCaller(api, servers, toolName) ==
    [api |-> api, servers |-> servers, toolName |-> toolName, pc |-> "start",
     promise |-> 0, seen |-> <<>>, called |-> <<>>, toolCall |-> "none",
     result |-> NoResult,
     concurrent |-> \E d \in 1..Len(callers) : ~Finished(callers[d])]

\* a caller invokes initMcpFromAgentConfig(servers)
CallInit ==
    \E servers \in ConfigSets :
        /\ Len(callers) < MaxCalls
        /\ ~draining
        /\ initMcpFromAgentConfig(Len(callers) + 1, NewCaller("init", servers, <<>>), ready)
        /\ UNCHANGED draining
        /\ UNCHANGED cmdVars

\* getMcpToolSpecs(mcpServers) up to its first suspension, preload/mcp/index.ts:208-215
CallGetMcpToolSpecs ==
    \E servers \in ToolConfigSets :
        /\ Len(callers) < MaxToolCalls
        /\ ~draining
        /\ LET c == Len(callers) + 1
               rec == NewCaller("getMcpToolSpecs", servers, <<>>) IN
           IF Len(servers) = 0
           THEN /\ callers' = Append(callers, [rec EXCEPT !.pc = "done"])
                /\ UNCHANGED ready
                /\ unchangedRegistry
           ELSE initMcpFromAgentConfig(c, rec, ready)
        /\ UNCHANGED draining
        /\ UNCHANGED cmdVars

\* tryExecuteMcpTool(toolName, input, mcpServers) up to its first suspension,
\* preload/mcp/index.ts:230-248
CallTryExecuteMcpTool ==
    \E servers \in ToolConfigSets, toolName \in ToolNames :
        /\ Len(callers) < MaxToolCalls
        /\ ~draining
        /\ LET c == Len(callers) + 1
               rec == NewCaller("tryExecuteMcpTool", servers, toolName) IN
           IF Len(servers) = 0
           THEN /\ callers' = Append(callers,
                                      [rec EXCEPT !.pc = "done",
                                                  !.result = [NoResult EXCEPT !.error = TRUE]])
                /\ UNCHANGED ready
                /\ unchangedRegistry
           ELSE initMcpFromAgentConfig(c, rec, ready)
        /\ UNCHANGED draining
        /\ UNCHANGED cmdVars

\* the caller at `await initializationInProgress` (line 106) is resumed: lines 107-124
ResumeWaiting ==
    /\ ready # <<>>
    /\ LET c == Head(ready)
           rec == callers[c] IN
       /\ rec.pc = "waiting"
       /\ IF promises[rec.promise].state = "resolved" /\ ~hasConfigChanged(rec.servers)
          THEN leaveInit(c, rec, FALSE, Tail(ready)) /\ unchangedRegistry
          ELSE startActivation(c, rec, Tail(ready))
    /\ draining' = (ready' # <<>>)
    /\ UNCHANGED cmdVars

\* variant: the cache is left as it is when the routine has failed
ResumeOwnerKeepCache ==
    /\ ready # <<>>
    /\ LET c == Head(ready)
           rec == callers[c] IN
       /\ rec.pc = "awaitOwn"
       /\ initializationInProgress' = 0
       /\ leaveInit(c, rec, promises[rec.promise].state # "resolved", Tail(ready))
       /\ UNCHANGED <<lastMcpServerConfigHash, lastMcpServerLength, lastMcpServerNames>>
       /\ UNCHANGED <<clients, promises, launches, toolHeap>>
    /\ draining' = (ready' # <<>>)
    /\ UNCHANGED cmdVars

\* the caller at `await initializationInProgress` (line 194) is resumed: lines 195-205
ResumeOwner ==
    /\ ready # <<>>
    /\ LET c == Head(ready)
           rec == callers[c] IN
       /\ rec.pc = "awaitOwn"
       /\ initializationInProgress' = 0
       /\ IF promises[rec.promise].state = "resolved"
          THEN /\ leaveInit(c, rec, FALSE, Tail(ready))
               /\ UNCHANGED <<lastMcpServerConfigHash, lastMcpServerLength,
                              lastMcpServerNames>>
          ELSE /\ leaveInit(c, rec, TRUE, Tail(ready))
               /\ updateConfigCache(<<>>)
       /\ UNCHANGED <<clients, promises, launches, toolHeap>>
    /\ draining' = (ready' # <<>>)
    /\ UNCHANGED cmdVars

\* getMcpToolSpecs after its await, preload/mcp/index.ts:217-227
ResumeGetMcpToolSpecs ==
    /\ ready # <<>>
    /\ LET c == Head(ready)
           rec == callers[c]
           specs == toolSpecsOf(toolHeap, toolIdsOf(clients)) IN
       /\ rec.pc = "afterInit"
       /\ rec.api = "getMcpToolSpecs"
       /\ toolHeap' = specs.heap
       /\ callers' = [callers EXCEPT ![c].pc = "done", ![c].result.ids = specs.ids]
    /\ ready' = Tail(ready)
    /\ draining' = (ready' # <<>>)
    /\ UNCHANGED <<clients, lastMcpServerConfigHash, lastMcpServerLength, lastMcpServerNames,
                   initializationInProgress, promises, launches>>
    /\ UNCHANGED cmdVars

\* variant: the first active client is taken whether or not it advertises the tool
findClientFirst(clientList, heap, toolName) == IF clientList = <<>> THEN 0 ELSE 1

\* clients.find(({ client }) => client.tools.find(...)), preload/mcp/index.ts:251-253:
\* the position of the first client that advertises the tool, 0 when there is none
findClient(clientList, heap, toolName) ==
    IF \E i \in 1..Len(clientList) : advertises(clientList[i], heap, toolName)
    THEN CHOOSE i \in 1..Len(clientList) :
            /\ advertises(clientList[i], heap, toolName)
            /\ \A j \in 1..(i - 1) : ~advertises(clientList[j], heap, toolName)
    ELSE 0

\* tryExecuteMcpTool after its await, preload/mcp/index.ts:250-268
ResumeTryExecuteMcpTool ==
    /\ ready # <<>>
    /\ LET c == Head(ready)
           rec == callers[c]
           found == findClient(clients, toolHeap, rec.toolName) IN
       /\ rec.pc = "afterInit"
       /\ rec.api = "tryExecuteMcpTool"
       /\ IF found = 0
          THEN callers' = [callers EXCEPT ![c].pc = "done",
                                          ![c].result = [NoResult EXCEPT !.error = TRUE]]
          ELSE callers' = [callers EXCEPT ![c].pc = "calling",
                                          ![c].called = identities(clients)[found]]
    /\ ready' = Tail(ready)
    /\ draining' = (ready' # <<>>)
    /\ unchangedRegistry
    /\ UNCHANGED cmdVars

\* variant: the exception of callTool is not caught
toolCallOutcomeUncaught(rec, returned) ==
    IF returned
    THEN [rec EXCEPT !.pc = "done",
                     !.result = [found |-> TRUE, success |-> TRUE, error |-> FALSE, ids |-> <<>>]]
    ELSE [rec EXCEPT !.pc = "thrown"]

\* preload/mcp/index.ts:265-288: the result of callTool, or its exception, is wrapped
toolCallOutcome(rec, returned) ==
    IF returned
    THEN [rec EXCEPT !.pc = "done",
                     !.result = [found |-> TRUE, success |-> TRUE, error |-> FALSE, ids |-> <<>>]]
    ELSE [rec EXCEPT !.pc = "done",
                     !.result = [found |-> TRUE, success |-> FALSE, error |-> TRUE, ids |-> <<>>]]

\* client.callTool(toolName, params) returns or throws
CallToolSettles ==
    \E c \in 1..Len(callers), returned \in BOOLEAN :
        /\ ready = <<>>
        /\ callers[c].pc = "calling"
        /\ callers' = [callers EXCEPT ![c] =
                          [toolCallOutcome(callers[c], returned) EXCEPT
                              !.toolCall = IF returned THEN "returned" ELSE "threw"]]
        /\ UNCHANGED <<ready, draining>>
        /\ unchangedRegistry
        /\ UNCHANGED cmdVars

\* the cleanup of the old clients has settled: preload/mcp/index.ts:136-187, up to the
\* routine's end (no servers, or an invalid configuration) or to the launch of the servers
CleanupSettles ==
    \E p \in 1..Len(promises) :
        LET servers == promises[p].servers IN
        /\ ready = <<>>
        /\ promises[p].state = "cleanup"
        /\ clients' = <<>>
        /\ IF Len(servers) = 0
           THEN /\ updateConfigCache(servers)
                /\ promises' = [promises EXCEPT ![p].state = "resolved", ![p].waiters = <<>>]
                /\ ready' = promises[p].waiters
                /\ UNCHANGED launches
           ELSE IF ~configSchemaAccepts(servers)
           THEN /\ promises' = [promises EXCEPT ![p].state = "rejected", ![p].waiters = <<>>]
                /\ ready' = promises[p].waiters
                /\ UNCHANGED <<lastMcpServerConfigHash, lastMcpServerLength,
                               lastMcpServerNames, launches>>
           ELSE /\ promises' = [promises EXCEPT ![p].state = "launching"]
                /\ launches' = launches + Len(servers)
                /\ UNCHANGED <<lastMcpServerConfigHash, lastMcpServerLength,
                               lastMcpServerNames, ready>>
        /\ UNCHANGED <<initializationInProgress, callers, draining, toolHeap>>
        /\ UNCHANGED cmdVars

RECURSIVE started(_, _, _, _, _)
\* the clients of the servers that started, in the order of the config list
\* (the filter of preload/mcp/index.ts:187); their descriptors are new objects
started(servers, ok, tools, gen, heapLen) ==
    IF servers = <<>> THEN <<>>
    ELSE LET n == Len(servers)
             before == started(SubSeq(servers, 1, n - 1), ok, tools, gen, heapLen)
             used == Len(toolIdsOf(before)) IN
         IF ok[n]
         THEN Append(before,
                     [name |-> servers[n].name, gen |-> gen, idx |-> n,
                      tools |-> [k \in 1..Len(tools[n]) |-> heapLen + used + k],
                      advertised |-> tools[n], cleanupCalls |-> 0])
         ELSE before

RECURSIVE advertisedOf(_)
advertisedOf(clientList) ==
    IF clientList = <<>> THEN <<>>
    ELSE Head(clientList).advertised \o advertisedOf(Tail(clientList))

\* variant: the configuration is cached only when every server has started
launchSettlesCacheOnFullSuccess(p, toolChoices) ==
    LET servers == promises[p].servers IN
    \E ok \in [1..Len(servers) -> BOOLEAN], tools \in [1..Len(servers) -> toolChoices] :
        LET new == started(servers, ok, tools, p, Len(toolHeap)) IN
        /\ ready = <<>>
        /\ promises[p].state = "launching"
        /\ clients' = new
        /\ toolHeap' = toolHeap \o advertisedOf(new)
        /\ IF \A n \in 1..Len(servers) : ok[n]
           THEN updateConfigCache(servers)
           ELSE UNCHANGED <<lastMcpServerConfigHash, lastMcpServerLength,
                            lastMcpServerNames>>
        /\ promises' = [promises EXCEPT ![p].state = "resolved", ![p].waiters = <<>>]
        /\ ready' = promises[p].waiters
        /\ UNCHANGED <<initializationInProgress, callers, draining, launches>>
        /\ UNCHANGED cmdVars

\* every MCPClient.fromCommand has settled: preload/mcp/index.ts:168-191
launchSettles(p, toolChoices) ==
    LET servers == promises[p].servers IN
    \E ok \in [1..Len(servers) -> BOOLEAN], tools \in [1..Len(servers) -> toolChoices] :
        LET new == started(servers, ok, tools, p, Len(toolHeap)) IN
        /\ ready = <<>>
        /\ promises[p].state = "launching"
        /\ clients' = new
        /\ toolHeap' = toolHeap \o advertisedOf(new)
        /\ updateConfigCache(servers)
        /\ promises' = [promises EXCEPT ![p].state = "resolved", ![p].waiters = <<>>]
        /\ ready' = promises[p].waiters
        /\ UNCHANGED <<initializationInProgress, callers, draining, launches>>
        /\ UNCHANGED cmdVars

LaunchSettles == \E p \in 1..Len(promises) : launchSettles(p, NoTools)

LaunchSettlesWithTools == \E p \in 1..Len(promises) : launchSettles(p, ToolLists)

\* the caller of getMcpToolSpecs overwrites the name of a descriptor it was given
CallerMutates ==
    \E c \in 1..Len(callers) :
        /\ callers[c].pc = "done"
        /\ \E n \in 1..Len(callers[c].result.ids) :
              /\ toolHeap[callers[c].result.ids[n]] # Scribble
              /\ toolHeap' = [toolHeap EXCEPT ![callers[c].result.ids[n]] = Scribble]
        /\ UNCHANGED <<clients, lastMcpServerConfigHash, lastMcpServerLength,
                       lastMcpServerNames, initializationInProgress, promises, callers,
                       ready, draining, launches>>
        /\ UNCHANGED cmdVars

McpInit ==
    /\ McpStart
    /\ config = [defined |-> FALSE, allowedCommands |-> <<>>]
    /\ request = <<>>
    /\ runningProcesses = EmptyMap
    /\ processStates = EmptyMap
    /\ closures = EmptyMap
    /\ os = EmptyMap
    /\ spawnCount = 0
    /\ lastCall = NoCall

\* overlapping initMcpFromAgentConfig calls
McpNext ==
    \/ CallInit
    \/ ResumeWaiting
    \/ ResumeOwner
    \/ CleanupSettles
    \/ LaunchSettles

SpecMcp == McpInit /\ [][McpNext]_vars

\* getMcpToolSpecs and tryExecuteMcpTool calls
ToolsNext ==
    \/ CallGetMcpToolSpecs
    \/ CallTryExecuteMcpTool
    \/ ResumeWaiting
    \/ ResumeOwner
    \/ ResumeGetMcpToolSpecs
    \/ ResumeTryExecuteMcpTool
    \/ CallToolSettles
    \/ CleanupSettles
    \/ LaunchSettlesWithTools
    \/ CallerMutates

SpecTools == McpInit /\ [][ToolsNext]_vars

--------------------------------------------------------------------------
(* Change detection on its own: initMcpFromAgentConfig calls made one after  *)
(* the other, each when the call before it has returned, with config lists   *)
(* that differ in one setting                                                 *)

MaxChangeCalls == 2   \* number of initMcpFromAgentConfig calls made in one behaviour

\* the server that the others are variations of
BaseServer == McpServerConfig(1, "d1", "x", <<>>, NoEnv)

\* the config lists passed by the callers
ChangeConfigSets ==
    {<<>>,
     <<BaseServer>>,
     <<[BaseServer EXCEPT !.description = "d2"]>>,
     <<[BaseServer EXCEPT !.env = Env(<<>>)]>>,
     <<[BaseServer EXCEPT !.env = Env(<< <<"K", "v1">> >>)]>>,
     <<[BaseServer EXCEPT !.env = Env(<< <<"K", "v2">> >>)]>>,
     <<[BaseServer EXCEPT !.command = "y"]>>,
     <<[BaseServer EXCEPT !.args = <<"a">>]>>,
     <<[BaseServer EXCEPT !.args = <<"b">>]>>,
     <<[BaseServer EXCEPT !.name = 2]>>,
     <<[BaseServer EXCEPT !.command = ""]>>,
     <<[BaseServer EXCEPT !.args = <<NotAString>>]>>,
     <<BaseServer, [BaseServer EXCEPT !.name = 2]>>,
     <<[BaseServer EXCEPT !.description = "d2"],
       [BaseServer EXCEPT !.name = 2, !.env = Env(<<>>)]>>}

\* a caller invokes initMcpFromAgentConfig(servers) when every earlier call has returned
CallInitInTurn ==
    \E servers \in ChangeConfigSets :
        /\ Len(callers) < MaxChangeCalls
        /\ \A d \in 1..Len(callers) : Finished(callers[d])
        /\ ready = <<>>
        /\ initMcpFromAgentConfig(Len(callers) + 1, NewCaller("init", servers, <<>>), ready)
        /\ UNCHANGED draining
        /\ UNCHANGED cmdVars

ChangeNext ==
    \/ CallInitInTurn
    \/ ResumeOwner
    \/ CleanupSettles
    \/ LaunchSettles

SpecChange == McpInit /\ [][ChangeNext]_vars

--------------------------------------------------------------------------
(* The tool dispatcher (preload/tools/tools.ts): executeTool as a function    *)
(* of its input.  A tool type is a sequence of parts, as a tool name is; a    *)
(* field of the input is absent or holds a value.                             *)

Absent == [present |-> FALSE, value |-> ""]

Field(value) == [present |-> TRUE, value |-> value]

\* NaN, 0 and '' are falsy; a pid is modelled by its decimal text
Truthy(field) == field.present /\ field.value \notin {"", "0"}

\* the case labels of the switch, preload/tools/tools.ts:51-162
BuiltinTools ==
    {"createFolder", "readFiles", "writeToFile", "applyDiffEdit", "listFiles", "moveFile",
     "copyFile", "tavilySearch", "fetchWebsite", "generateImage", "retrieve",
     "invokeBedrockAgent", "executeCommand", "think"}

\* isMcpTool: the name carries the prefix that getMcpToolSpecs puts before tool names
isMcpTool(type) == Len(type) >= 1 /\ type[1] = MCP_PREFIX

\* the tool types of the inputs
ToolTypes == {<<"executeCommand">>, <<"think">>, <<MCP_PREFIX, "t1">>, <<"bogus">>, <<"">>}

\* the inputs of executeTool
ToolInputs ==
    [type : ToolTypes,
     pid : {Absent, Field("0"), Field("1")},
     stdin : {Absent, Field(""), Field("x")},
     command : {Absent, Field(""), Field("ls")},
     cwd : {Absent, Field(""), Field("/")}]

\* preload/tools/tools.ts:137-158
executeCommandRoute(input) ==
    IF input.pid.present /\ input.stdin.present /\ Truthy(input.pid) /\ Truthy(input.stdin)
    THEN [route |-> "sendInput", error |-> "none"]
    ELSE IF input.command.present /\ input.cwd.present
            /\ Truthy(input.command) /\ Truthy(input.cwd)
    THEN [route |-> "spawn", error |-> "none"]
    ELSE [route |-> "none", error |-> "Invalid input format for executeCommand"]

\* preload/tools/tools.ts:13-175: where the input is routed to, or the error thrown
executeTool(input) ==
    IF isMcpTool(input.type)
    THEN [route |-> "tryExecuteMcpTool", error |-> "none"]
    ELSE IF Len(input.type) = 1 /\ input.type[1] = "executeCommand"
    THEN executeCommandRoute(input)
    ELSE IF Len(input.type) = 1 /\ input.type[1] \in BuiltinTools
    THEN [route |-> "toolService", error |-> "none"]
    ELSE [route |-> "none", error |-> "Unknown tool type"]

DispatchInit ==
    /\ McpStart
    /\ config = [defined |-> FALSE, allowedCommands |-> <<>>]
    /\ request \in ToolInputs
    /\ runningProcesses = EmptyMap
    /\ processStates = EmptyMap
    /\ closures = EmptyMap
    /\ os = EmptyMap
    /\ spawnCount = 0
    /\ lastCall = NoCall

\* executeTool(request)
ExecuteTool ==
    /\ lastCall = NoCall
    /\ lastCall' = [op |-> "executeTool", command |-> <<>>, pid |-> 0,
                    outcome |-> executeTool(request)]
    /\ UNCHANGED <<config, runningProcesses, processStates, closures, os, spawnCount,
                   request>>
    /\ UNCHANGED mcpVars

DispatchNext == ExecuteTool

SpecDispatch == DispatchInit /\ [][DispatchNext]_vars

--------------------------------------------------------------------------
(* The per-agent configuration that executeTool hands to its two backends      *)
(* (preload/tools/tools.ts and preload/helpers/agent-helpers.ts), as a         *)
(* function of the store: selectedAgentId ("" for none), customAgents and      *)
(* sharedAgents.                                                               *)

\* CustomAgent: only id, allowedCommands and mcpServers are read
Agent(id, allowedCommands, mcpServers) ==
    [id |-> id, allowedCommands |-> allowedCommands, mcpServers |-> mcpServers]

Agents ==
    {Agent(id, allowedCommands, mcpServers) :
        id \in {"a", "b"},
        allowedCommands \in {<<>>, << <<"gh", "pr">> >>},
        mcpServers \in {<<>>, <<Server(1, "x")>>}}

\* the agent lists of the store
AgentLists == {<<>>} \cup {<<agent>> : agent \in Agents}

Stores == [selectedAgentId : {"", "a", "b"}, customAgents : AgentLists,
           sharedAgents : AgentLists]

NoAgent == [found |-> FALSE, agent |-> Agent("", <<>>, <<>>)]

\* agents.find((agent) => agent.id === agentId)
findAgent(agents, agentId) ==
    IF \E i \in 1..Len(agents) : agents[i].id = agentId
    THEN [found |-> TRUE,
          agent |-> agents[CHOOSE i \in 1..Len(agents) :
                              /\ agents[i].id = agentId
                              /\ \A j \in 1..(i - 1) : agents[j].id # agentId]]
    ELSE NoAgent

\* preload/helpers/agent-helpers.ts:8-12
getAllAgents(store) == store.customAgents \o store.sharedAgents

\* preload/helpers/agent-helpers.ts:18-20
findAgentById(store, agentId) == findAgent(getAllAgents(store), agentId)

\* preload/tools/tools.ts:120-130: the allow-list handed to toolService.executeCommand
allowedCommandsFor(store) ==
    LET currentAgent == findAgentById(store, store.selectedAgentId) IN
    IF store.selectedAgentId # "" /\ currentAgent.found
    THEN currentAgent.agent.allowedCommands
    ELSE <<>>

\* preload/tools/tools.ts:26-45: the mcpServers handed to tryExecuteMcpTool
\* (undefined: defined = FALSE)
mcpServersFor(store) ==
    LET currentAgent == findAgent(store.customAgents, store.selectedAgentId) IN
    IF store.selectedAgentId # "" /\ currentAgent.found
       /\ Len(currentAgent.agent.mcpServers) > 0
    THEN [defined |-> TRUE, servers |-> currentAgent.agent.mcpServers]
    ELSE [defined |-> FALSE, servers |-> <<>>]

AgentsInit ==
    /\ McpStart
    /\ config = [defined |-> FALSE, allowedCommands |-> <<>>]
    /\ request \in Stores
    /\ runningProcesses = EmptyMap
    /\ processStates = EmptyMap
    /\ closures = EmptyMap
    /\ os = EmptyMap
    /\ spawnCount = 0
    /\ lastCall = NoCall

\* executeTool of an MCP tool and of executeCommand with the store `request`: what
\* each backend is given
ResolveAgentConfig ==
    /\ lastCall = NoCall
    /\ lastCall' = [op |-> "executeTool", command |-> <<>>, pid |-> 0,
                    outcome |-> [allowedCommands |-> allowedCommandsFor(request),
                                 mcpServers |-> mcpServersFor(request)]]
    /\ UNCHANGED <<config, runningProcesses, processStates, closures, os, spawnCount,
                   request>>
    /\ UNCHANGED mcpVars

AgentsNext == ResolveAgentConfig

SpecAgents == AgentsInit /\ [][AgentsNext]_vars

--------------------------------------------------------------------------
(* Chat session store (ChatSessionManager)                                 *)
(*                                                                         *)
(* One session id is under study.  `request` holds the store: the session  *)
(* file on disk, the metadata store, and the addMessage calls made so far  *)
(* with the position each one has reached.  Call c adds the message c; a   *)
(* session that already holds a message holds the message 0.  Every write  *)
(* of the session file succeeds and replaces the file's content at once    *)
(* when it completes.                                                      *)

MaxAddCalls == 3   \* number of addMessage calls made on the session

SessionId == "session_1"

\* readSessionFile returns null: the file is missing or cannot be parsed
NoSession == [exists |-> FALSE, messages |-> <<>>]

\* types/chat/history ChatSession, reduced to its messages
ChatSession(messages) == [exists |-> TRUE, messages |-> messages]

\* the session file before the first call under study: missing, freshly created
\* by createSession, or holding one message
InitialSessionFiles == {NoSession, ChatSession(<<>>), ChatSession(<<0>>)}

NoMetadata == [present |-> FALSE, messageCount |-> 0]

AddCalls == 1 .. MaxAddCalls

\* part_011:64-73
readSessionFile(sessionFile) == sessionFile

\* part_011:84-101: the entry stored for the session
updateMetadata(session) == [present |-> TRUE, messageCount |-> Len(session.messages)]

\* part_011:191-195
updateRecentSessions(recentSessions, sessionId) ==
    LET others == SelectSeq(recentSessions, LAMBDA id : id # sessionId)
        updated == <<sessionId>> \o others
    IN  SubSeq(updated, 1, IF Len(updated) < 10 THEN Len(updated) ELSE 10)

\* the store after createSession and the addMessage calls that built `sessionFile`
ChatStore(sessionFile) ==
    [sessionFile |-> sessionFile,
     metadata |-> IF sessionFile.exists THEN updateMetadata(sessionFile) ELSE NoMetadata,
     recentSessions |-> IF sessionFile.exists THEN <<SessionId>> ELSE <<>>,
     calls |-> [c \in AddCalls |-> [pc |-> "idle", session |-> NoSession]]]

ChatInit ==
    /\ McpStart
    /\ config = [defined |-> FALSE, allowedCommands |-> <<>>]
    /\ request \in {ChatStore(f) : f \in InitialSessionFiles}
    /\ runningProcesses = EmptyMap
    /\ processStates = EmptyMap
    /\ closures = EmptyMap
    /\ os = EmptyMap
    /\ spawnCount = 0
    /\ lastCall = NoCall

ChatUnchanged ==
    /\ UNCHANGED <<config, runningProcesses, processStates, closures, os, spawnCount,
                   lastCall>>
    /\ UNCHANGED mcpVars

\* part_011:122-129: addMessage up to its await.  The session is read from the
\* file, the message is pushed onto that copy, and the write of the copy is started.
AddMessage(c) ==
    /\ request.calls[c].pc = "idle"
    /\ LET session == readSessionFile(request.sessionFile) IN
       IF ~session.exists
       THEN request' = [request EXCEPT !.calls[c].pc = "done"]
       ELSE request' = [request EXCEPT
                           !.calls[c] = [pc |-> "writing",
                                         session |-> ChatSession(Append(session.messages, c))]]
    /\ ChatUnchanged

\* part_011:75-82: fs.promises.writeFile of the call's copy completes
WriteSessionFileDone(c) ==
    /\ request.calls[c].pc = "writing"
    /\ request' = [request EXCEPT !.sessionFile = request.calls[c].session,
                                  !.calls[c].pc = "written"]
    /\ ChatUnchanged

\* part_011:130-131: addMessage after its await
AddMessageResume(c) ==
    /\ request.calls[c].pc = "written"
    /\ request' = [request EXCEPT
                      !.metadata = updateMetadata(request.calls[c].session),
                      !.recentSessions = updateRecentSessions(@, SessionId),
                      !.calls[c].pc = "done"]
    /\ ChatUnchanged

ChatNext ==
    \E c \in AddCalls :
        \/ AddMessage(c)
        \/ WriteSessionFileDone(c)
        \/ AddMessageResume(c)

SpecChat == ChatInit /\ [][ChatNext]_vars

--------------------------------------------------------------------------
(* Output text and its classification (CommandService)                     *)
(*                                                                         *)
(* A text is the sequence of the fragments it is made of; concatenating    *)
(* texts concatenates the sequences, and a chunk boundary falls between    *)
(* two fragments.  No fragment begins with a blank or contains a marker    *)
(* other than the ones listed, so that String.includes on the text is      *)
(* containment of the marker's fragments as a contiguous run.              *)

NL == "\n"

COLON_SP == ": "

QUESTION_SP == "? "

QUESTION == "?"

\* the fragments the processes of the model write
Fragments ==
    {"Enter name", COLON_SP, NL, "Err", "or:", "Ready", "listen", "ing",
     "app crashed", "waiting for file changes", QUESTION_SP, QUESTION}

Includes(text, pattern) ==
    \E i \in 0..(Len(text) - Len(pattern)) :
        SubSeq(text, i + 1, i + Len(pattern)) = pattern

\* String.prototype.toLowerCase, fragment by fragment
toLowerCase(text) ==
    [i \in 1..Len(text) |->
        CASE text[i] = "Ready" -> "ready"
          [] text[i] = "Err" -> "err"
          [] text[i] = "Enter name" -> "enter name"
          [] OTHER -> text[i]]

APP_CRASHED == <<"app crashed">>

WAITING_FOR_FILE_CHANGES == <<"waiting for file changes">>

\* commandService.ts:38-48, the keywords that the fragments can spell
serverReadyPatterns == {<<"listen", "ing">>, <<"ready">>, WAITING_FOR_FILE_CHANGES}

\* commandService.ts:51-62, the markers that the fragments can spell
errorPatterns == {<<"Err", "or:">>, APP_CRASHED}

\* commandService.ts:140-144
isServerReady(output) ==
    \E pattern \in serverReadyPatterns :
        Includes(toLowerCase(output), toLowerCase(pattern))

\* variant: the crash marker taken out of the list, so that only the crash-state
\* test decides about it
checkForErrorsCrashSuppressed(stdout, stderr) ==
    \/ \E pattern \in errorPatterns \ {APP_CRASHED} :
            Includes(stdout, pattern) \/ Includes(stderr, pattern)
    \/ Includes(stdout, APP_CRASHED) /\ ~Includes(stdout, WAITING_FOR_FILE_CHANGES)

\* commandService.ts:147-161
checkForErrors(stdout, stderr) ==
    \/ \E pattern \in errorPatterns :
            Includes(stdout, pattern) \/ Includes(stderr, pattern)
    \/ Includes(stdout, APP_CRASHED) /\ ~Includes(stdout, WAITING_FOR_FILE_CHANGES)

\* the last character of the fragment is a colon
EndsWithColon(fragment) == fragment = "or:"

EndOfLine(output, k) == k = Len(output) \/ output[k + 1] = NL

\* /\? .+\?.*$/m matches with its `? ` at fragment i: a `?` follows on the same line
\* with at least one character in between
InquirerAt(output, i) ==
    /\ output[i] = QUESTION_SP
    /\ \E j \in (i + 2)..Len(output) :
          /\ output[j] \in {QUESTION, QUESTION_SP}
          /\ \A m \in (i + 1)..j : output[m] # NL

\* /[^:]+: $/m matches with its `: ` at fragment k: the line ends after it and the
\* character before it is not a colon
BasicPromptAt(output, k) ==
    /\ k >= 2
    /\ output[k] = COLON_SP
    /\ EndOfLine(output, k)
    /\ ~EndsWithColon(output[k - 1])

\* index of the fragment after which the line of fragment i ends
LineEnd(output, i) ==
    IF \E m \in i..Len(output) : output[m] = NL
    THEN (CHOOSE m \in i..Len(output) :
              output[m] = NL /\ \A n \in i..(m - 1) : output[n] # NL) - 1
    ELSE Len(output)

\* output.split('\n') and its last element, commandService.ts:31-32
LastLine(output) ==
    IF \E m \in 1..Len(output) : output[m] = NL
    THEN LET last == CHOOSE m \in 1..Len(output) :
                        output[m] = NL /\ \A n \in (m + 1)..Len(output) : output[n] # NL
         IN  SubSeq(output, last + 1, Len(output))
    ELSE output

\* variant: only the inquirer pattern is tried
isWaitingForInputInquirerOnly(output) ==
    IF \E i \in 1..Len(output) : InquirerAt(output, i)
    THEN LET i == CHOOSE i \in 1..Len(output) :
                     InquirerAt(output, i) /\ \A h \in 1..(i - 1) : ~InquirerAt(output, h)
         IN  [isWaiting |-> TRUE, prompt |-> SubSeq(output, i + 1, LineEnd(output, i))]
    ELSE [isWaiting |-> FALSE, prompt |-> <<>>]

\* commandService.ts:20-35 and 110-118: the first pattern that matches extracts the prompt
isWaitingForInput(output) ==
    IF \E i \in 1..Len(output) : InquirerAt(output, i)
    THEN LET i == CHOOSE i \in 1..Len(output) :
                     InquirerAt(output, i) /\ \A h \in 1..(i - 1) : ~InquirerAt(output, h)
         IN  [isWaiting |-> TRUE, prompt |-> SubSeq(output, i + 1, LineEnd(output, i))]
    ELSE IF \E k \in 1..Len(output) : BasicPromptAt(output, k)
    THEN [isWaiting |-> TRUE, prompt |-> LastLine(output)]
    ELSE [isWaiting |-> FALSE, prompt |-> <<>>]

--------------------------------------------------------------------------
(* One interactive session of CommandService: executeCommand, the process  *)
(* events, sendInput and stopProcess on it.  `closures` holds one record   *)
(* per executeCommand / sendInput call (the variables its callbacks close  *)
(* over and the state of the promise it returned); `os` holds, per pid,    *)
(* whether the process lives, whose listeners are attached to it, what     *)
(* was written to its stdin and what it has written to its two streams.    *)

MaxData == 2     \* number of data events a process emits in one behaviour
MaxInputs == 1   \* number of accepted sendInput calls in one behaviour

NULL == -1       \* stands for null (no exit code yet)

SessionPid == 1

\* the pid passed to sendInput and stopProcess; it is unknown to the service before
\* the process is spawned and after its session was removed
SessionPids == {SessionPid}

SessionCommand == <<"gh", "pr">>

SessionConfig == [defined |-> TRUE, allowedCommands |-> << <<"gh", "pr", WILDCARD>> >>]

\* the chunks delivered by stdout 'data' events
StdoutChunks ==
    {<<NL, "Enter name">>, <<COLON_SP>>, <<"Err", "or:">>, <<"Err">>, <<"or:", "Ready">>}

\* the chunks delivered by stderr 'data' events
StderrChunks == {<<"Err", "or:">>}

\* process.on('exit', (code) => ...)
ExitCodes == {0, 1}

\* code || 0
codeOrZero(code) == IF code = NULL THEN 0 ELSE code

NoOutput == [stdout |-> <<>>, stderr |-> <<>>, code |-> NULL]

NoResultYet == [requiresInput |-> FALSE, prompt |-> <<>>, exitCode |-> NULL, error |-> ""]

\* resolve(...) / reject(...): only the first settlement of a promise counts
settle(cl, c, outcome, result) ==
    IF cl[c].promise = "pending"
    THEN [cl EXCEPT ![c].promise = outcome, ![c].result = result]
    ELSE cl

rejection(message) == [NoResultYet EXCEPT !.error = message]

\* variant: an entry is made for a pid that has none
updateProcessStateUpsert(ps, pid, field, value) ==
    IF pid \in DOMAIN ps
    THEN [ps EXCEPT ![pid] = [@ EXCEPT ![field] = value]]
    ELSE Put(ps, pid, [[isRunning |-> TRUE, hasError |-> FALSE, output |-> NoOutput]
                          EXCEPT ![field] = value])

\* updateProcessState, commandService.ts:132-137
updateProcessState(ps, pid, field, value) ==
    IF pid \in DOMAIN ps
    THEN [ps EXCEPT ![pid] = [@ EXCEPT ![field] = value]]
    ELSE ps

\* variant: cleanup removes the pid from runningProcesses only
completeWithErrorKeepState(S, c, error) ==
    IF ~S.cl[c].isCompleted
    THEN [ps |-> S.ps,
          rp |-> Remove(S.rp, S.cl[c].pid),
          cl |-> settle([S.cl EXCEPT ![c].isCompleted = TRUE], c, "rejected",
                        rejection(error))]
    ELSE S

\* executeCommand's cleanup + completeWithError, commandService.ts:200-211
completeWithError(S, c, error) ==
    IF ~S.cl[c].isCompleted
    THEN [ps |-> Remove(S.ps, S.cl[c].pid),
          rp |-> Remove(S.rp, S.cl[c].pid),
          cl |-> settle([S.cl EXCEPT ![c].isCompleted = TRUE], c, "rejected",
                        rejection(error))]
    ELSE S

\* executeCommand's completeWithSuccess, commandService.ts:213-268
completeWithSuccess(S, c) ==
    LET pid == S.cl[c].pid
        waiting == isWaitingForInput(S.cl[c].currentOutput)
    IN
    IF S.cl[c].isCompleted THEN S
    ELSE IF pid \notin DOMAIN S.ps
    THEN [S EXCEPT !.cl = settle(S.cl, c, "rejected", rejection("Process state not found"))]
    ELSE IF waiting.isWaiting
    THEN [S EXCEPT !.cl = settle(S.cl, c, "resolved",
                                 [NoResultYet EXCEPT !.requiresInput = TRUE,
                                                     !.prompt = waiting.prompt,
                                                     !.exitCode = 0])]
    ELSE IF isServerReady(S.cl[c].currentOutput)
    THEN [S EXCEPT !.cl = settle(S.cl, c, "resolved", [NoResultYet EXCEPT !.exitCode = 0])]
    ELSE [ps |-> Remove(S.ps, pid),
          rp |-> Remove(S.rp, pid),
          cl |-> settle([S.cl EXCEPT ![c].isCompleted = TRUE], c, "resolved",
                        [NoResultYet EXCEPT
                            !.exitCode = codeOrZero(S.ps[pid].output.code)])]

\* sendInput's completeWithError, commandService.ts:378-383
inputCompleteWithError(S, c, error) ==
    IF ~S.cl[c].isCompleted
    THEN [S EXCEPT !.cl = settle([S.cl EXCEPT ![c].isCompleted = TRUE], c, "rejected",
                                 rejection(error))]
    ELSE S

\* sendInput's completeWithSuccess, commandService.ts:385-405
inputCompleteWithSuccess(S, c) ==
    LET waiting == isWaitingForInput(S.cl[c].currentOutput) IN
    IF ~S.cl[c].isCompleted
    THEN [S EXCEPT !.cl = settle([S.cl EXCEPT ![c].isCompleted = TRUE], c, "resolved",
                                 [NoResultYet EXCEPT !.requiresInput = waiting.isWaiting,
                                                     !.prompt = waiting.prompt,
                                                     !.exitCode = 0])]
    ELSE S

\* stdout 'data' listener of executeCommand, commandService.ts:270-293
execStdout(S, c, chunk) ==
    LET pid == S.cl[c].pid
        currentOutput == S.cl[c].currentOutput \o chunk
        cl1 == [S.cl EXCEPT ![c].currentOutput = currentOutput]
    IN
    IF pid \in DOMAIN S.ps
    THEN LET ps1 == updateProcessState(S.ps, pid, "output",
                        [S.ps[pid].output EXCEPT !.stdout = currentOutput])
             S1 == [ps |-> ps1, rp |-> S.rp, cl |-> cl1]
         IN  IF checkForErrors(chunk, <<>>)
             THEN completeWithError(
                      [S1 EXCEPT !.ps = updateProcessState(ps1, pid, "hasError", TRUE)],
                      c, "Command failed")
             ELSE IF isWaitingForInput(currentOutput).isWaiting \/ isServerReady(currentOutput)
             THEN completeWithSuccess(S1, c)
             ELSE S1
    ELSE [S EXCEPT !.cl = cl1]

\* stderr 'data' listener of executeCommand, commandService.ts:295-311
execStderr(S, c, chunk) ==
    LET pid == S.cl[c].pid
        currentError == S.cl[c].currentError \o chunk
        cl1 == [S.cl EXCEPT ![c].currentError = currentError]
    IN
    IF pid \in DOMAIN S.ps
    THEN LET ps1 == updateProcessState(S.ps, pid, "output",
                        [S.ps[pid].output EXCEPT !.stderr = currentError])
             S1 == [ps |-> ps1, rp |-> S.rp, cl |-> cl1]
         IN  IF checkForErrors(<<>>, chunk)
             THEN completeWithError(
                      [S1 EXCEPT !.ps = updateProcessState(ps1, pid, "hasError", TRUE)],
                      c, "Command failed")
             ELSE S1
    ELSE [S EXCEPT !.cl = cl1]

\* 'exit' listener of executeCommand, commandService.ts:319-333
execExit(S, c, code) ==
    LET pid == S.cl[c].pid IN
    IF pid \in DOMAIN S.ps
    THEN LET ps1 == updateProcessState(
                        updateProcessState(S.ps, pid, "isRunning", FALSE), pid, "output",
                        [S.ps[pid].output EXCEPT !.code = codeOrZero(code)])
             S1 == [S EXCEPT !.ps = ps1]
         IN  IF ~checkForErrors(S.cl[c].currentOutput, S.cl[c].currentError) /\ code = 0
             THEN completeWithSuccess(S1, c)
             ELSE completeWithError(S1, c, "Process exited")
    ELSE S

\* the five-minute timer of executeCommand, commandService.ts:335-356
execTimeout(S, c) ==
    LET pid == S.cl[c].pid IN
    IF S.cl[c].isCompleted \/ pid \notin DOMAIN S.ps THEN S
    ELSE IF S.ps[pid].hasError THEN completeWithError(S, c, "Command failed to start")
    ELSE IF \/ isServerReady(S.cl[c].currentOutput)
            \/ Includes(S.cl[c].currentOutput, WAITING_FOR_FILE_CHANGES)
    THEN completeWithSuccess(S, c)
    ELSE completeWithError(S, c, "Command timed out")

\* stdout 'data' listener of sendInput, commandService.ts:407-427; `state` is the
\* object read from the table when sendInput was called
inputStdout(S, c, chunk) ==
    LET pid == S.cl[c].pid
        currentOutput == S.cl[c].currentOutput \o chunk
        ps1 == updateProcessState(S.ps, pid, "output",
                                  [S.cl[c].state EXCEPT !.stdout = currentOutput])
        S1 == [ps |-> ps1, rp |-> S.rp,
               cl |-> [S.cl EXCEPT ![c].currentOutput = currentOutput]]
    IN
    IF checkForErrors(chunk, <<>>)
    THEN inputCompleteWithError(
             [S1 EXCEPT !.ps = updateProcessState(ps1, pid, "hasError", TRUE)],
             c, "Command failed")
    ELSE IF isWaitingForInput(currentOutput).isWaiting \/ isServerReady(currentOutput)
    THEN inputCompleteWithSuccess(S1, c)
    ELSE S1

\* stderr 'data' listener of sendInput, commandService.ts:429-441
inputStderr(S, c, chunk) ==
    LET pid == S.cl[c].pid
        currentError == S.cl[c].currentError \o chunk
        ps1 == updateProcessState(S.ps, pid, "output",
                                  [S.cl[c].state EXCEPT !.stderr = currentError])
        S1 == [ps |-> ps1, rp |-> S.rp,
               cl |-> [S.cl EXCEPT ![c].currentError = currentError]]
    IN
    IF checkForErrors(<<>>, chunk)
    THEN inputCompleteWithError(
             [S1 EXCEPT !.ps = updateProcessState(ps1, pid, "hasError", TRUE)],
             c, "Command failed")
    ELSE S1

\* 'exit' listener of sendInput, commandService.ts:449-464
inputExit(S, c, code) ==
    LET pid == S.cl[c].pid
        ps1 == updateProcessState(
                   updateProcessState(S.ps, pid, "isRunning", FALSE), pid, "output",
                   [S.cl[c].state EXCEPT !.code = codeOrZero(code)])
        S1 == [S EXCEPT !.ps = ps1]
        S2 == IF ~checkForErrors(S.cl[c].currentOutput, S.cl[c].currentError) /\ code = 0
              THEN inputCompleteWithSuccess(S1, c)
              ELSE inputCompleteWithError(S1, c, "Process exited")
    IN  [S2 EXCEPT !.ps = Remove(S2.ps, pid), !.rp = Remove(S2.rp, pid)]

\* the five-second timer of sendInput, commandService.ts:470-486
inputTimeout(S, c) ==
    LET pid == S.cl[c].pid IN
    IF S.cl[c].isCompleted \/ pid \notin DOMAIN S.ps THEN S
    ELSE IF S.ps[pid].hasError THEN inputCompleteWithError(S, c, "Command failed")
    ELSE IF \/ isServerReady(S.cl[c].currentOutput)
            \/ Includes(S.cl[c].currentOutput, WAITING_FOR_FILE_CHANGES)
    THEN inputCompleteWithSuccess(S, c)
    ELSE inputCompleteWithError(S, c, "Command timed out waiting for response")

Tables == [ps |-> processStates, rp |-> runningProcesses, cl |-> closures]

Store(S) ==
    /\ processStates' = S.ps
    /\ runningProcesses' = S.rp
    /\ closures' = S.cl

NewClosure(kind, pid, output) ==
    [kind |-> kind, pid |-> pid, currentOutput |-> output.stdout,
     currentError |-> output.stderr, isCompleted |-> FALSE, promise |-> "pending",
     result |-> NoResultYet, timer |-> TRUE, state |-> output]

SessionInit ==
    /\ McpStart
    /\ config = SessionConfig
    /\ request = <<>>
    /\ runningProcesses = EmptyMap
    /\ processStates = EmptyMap
    /\ closures = <<>>
    /\ os = EmptyMap
    /\ spawnCount = 0
    /\ lastCall = NoCall

\* executeCommand up to the registration of its listeners and of its timer,
\* commandService.ts:163-198
StartSession ==
    /\ spawnCount = 0
    /\ isCommandAllowed(SessionCommand)
    /\ spawnCount' = 1
    /\ \/ /\ lastCall' = [op |-> "executeCommand", command |-> SessionCommand, pid |-> 0,
                          outcome |-> "rejected: Failed to start process"]
          /\ UNCHANGED <<runningProcesses, processStates, closures, os>>
       \/ /\ processStates' = Put(processStates, SessionPid,
                                  [isRunning |-> TRUE, hasError |-> FALSE,
                                   output |-> NoOutput])
          /\ runningProcesses' = Put(runningProcesses, SessionPid, SessionCommand)
          /\ closures' = Append(closures,
                                NewClosure("executeCommand", SessionPid, NoOutput))
          /\ os' = Put(os, SessionPid,
                       [alive |-> TRUE, listener |-> Len(closures) + 1, data |-> 0,
                        stdin |-> <<>>, signals |-> 0, code |-> NULL,
                        stdout |-> <<>>, stderr |-> <<>>])
          /\ lastCall' = [op |-> "executeCommand", command |-> SessionCommand,
                          pid |-> SessionPid, outcome |-> "pending"]
    /\ UNCHANGED <<config, request>>
    /\ UNCHANGED mcpVars

\* a stdout 'data' event, handled by the listener that is attached
StdoutData ==
    \E pid \in DOMAIN os, chunk \in StdoutChunks :
        LET c == os[pid].listener IN
        /\ os[pid].alive
        /\ os[pid].data < MaxData
        /\ os' = [os EXCEPT ![pid].data = @ + 1, ![pid].stdout = @ \o chunk]
        /\ Store(IF closures[c].kind = "executeCommand"
                 THEN execStdout(Tables, c, chunk)
                 ELSE inputStdout(Tables, c, chunk))
        /\ UNCHANGED <<config, spawnCount, lastCall, request>>
        /\ UNCHANGED mcpVars

\* a stderr 'data' event, handled by the listener that is attached
StderrData ==
    \E pid \in DOMAIN os, chunk \in StderrChunks :
        LET c == os[pid].listener IN
        /\ os[pid].alive
        /\ os[pid].data < MaxData
        /\ os' = [os EXCEPT ![pid].data = @ + 1, ![pid].stderr = @ \o chunk]
        /\ Store(IF closures[c].kind = "executeCommand"
                 THEN execStderr(Tables, c, chunk)
                 ELSE inputStderr(Tables, c, chunk))
        /\ UNCHANGED <<config, spawnCount, lastCall, request>>
        /\ UNCHANGED mcpVars

\* the 'exit' event of the process, handled by the listener that is attached
ProcessExit ==
    \E pid \in DOMAIN os, code \in ExitCodes :
        LET c == os[pid].listener IN
        /\ os[pid].alive
        /\ os' = [os EXCEPT ![pid].alive = FALSE, ![pid].code = code]
        /\ Store(IF closures[c].kind = "executeCommand"
                 THEN execExit(Tables, c, code)
                 ELSE inputExit(Tables, c, code))
        /\ UNCHANGED <<config, spawnCount, lastCall, request>>
        /\ UNCHANGED mcpVars

\* setTimeout callback of executeCommand
ExecuteTimeout ==
    \E c \in 1..Len(closures) :
        /\ closures[c].kind = "executeCommand"
        /\ closures[c].timer
        /\ Store(LET S == execTimeout(Tables, c)
                 IN  [S EXCEPT !.cl = [S.cl EXCEPT ![c].timer = FALSE]])
        /\ UNCHANGED <<config, os, spawnCount, lastCall, request>>
        /\ UNCHANGED mcpVars

\* setTimeout callback of sendInput
SendInputTimeout ==
    \E c \in 1..Len(closures) :
        /\ closures[c].kind = "sendInput"
        /\ closures[c].timer
        /\ Store(LET S == inputTimeout(Tables, c)
                 IN  [S EXCEPT !.cl = [S.cl EXCEPT ![c].timer = FALSE]])
        /\ UNCHANGED <<config, os, spawnCount, lastCall, request>>
        /\ UNCHANGED mcpVars

InputCalls == {c \in 1..Len(closures) : closures[c].kind = "sendInput"}

\* sendInput, commandService.ts:360-376 and 467; state.process is set for every entry
\* of processStates (commandService.ts:194)
sendInput(pid) ==
    IF pid \notin DOMAIN processStates
    THEN /\ lastCall' = [op |-> "sendInput", command |-> <<>>, pid |-> pid,
                         outcome |-> "rejected: No running process found"]
         /\ UNCHANGED <<runningProcesses, processStates, closures, os>>
    ELSE /\ Cardinality(InputCalls) < MaxInputs
         /\ closures' = Append(closures,
                               NewClosure("sendInput", pid, processStates[pid].output))
         /\ os' = [os EXCEPT ![pid].listener = Len(closures) + 1,
                             ![pid].stdin = Append(@, [alive |-> os[pid].alive,
                                                       isRunning |-> processStates[pid].isRunning])]
         /\ lastCall' = [op |-> "sendInput", command |-> <<>>, pid |-> pid,
                         outcome |-> "pending"]
         /\ UNCHANGED <<runningProcesses, processStates>>

SendInput ==
    \E pid \in SessionPids :
        /\ sendInput(pid)
        /\ UNCHANGED <<config, spawnCount, request>>
        /\ UNCHANGED mcpVars

\* variant: the tables are purged although process.kill threw
stopProcessPurgeOnFailure(pid) ==
    IF pid \in DOMAIN runningProcesses
    THEN \/ /\ os' = [os EXCEPT ![pid].signals = 1]
            /\ runningProcesses' = Remove(runningProcesses, pid)
            /\ processStates' = Remove(processStates, pid)
            /\ lastCall' = [op |-> "stopProcess", command |-> <<>>, pid |-> pid,
                            outcome |-> "resolved"]
         \/ /\ lastCall' = [op |-> "stopProcess", command |-> <<>>, pid |-> pid,
                            outcome |-> "rejected: Failed to stop process"]
            /\ runningProcesses' = Remove(runningProcesses, pid)
            /\ processStates' = Remove(processStates, pid)
            /\ UNCHANGED os
    ELSE /\ lastCall' = [op |-> "stopProcess", command |-> <<>>, pid |-> pid,
                         outcome |-> "resolved"]
         /\ UNCHANGED <<runningProcesses, processStates, os>>

\* stopProcess on a session, commandService.ts:490-502; process.kill(-pid) returns
\* or throws
stopProcess(pid) ==
    IF pid \in DOMAIN runningProcesses
    THEN \/ /\ os' = [os EXCEPT ![pid].signals = 1]
            /\ runningProcesses' = Remove(runningProcesses, pid)
            /\ processStates' = Remove(processStates, pid)
            /\ lastCall' = [op |-> "stopProcess", command |-> <<>>, pid |-> pid,
                            outcome |-> "resolved"]
         \/ /\ lastCall' = [op |-> "stopProcess", command |-> <<>>, pid |-> pid,
                            outcome |-> "rejected: Failed to stop process"]
            /\ UNCHANGED <<runningProcesses, processStates, os>>
    ELSE /\ lastCall' = [op |-> "stopProcess", command |-> <<>>, pid |-> pid,
                         outcome |-> "resolved"]
         /\ UNCHANGED <<runningProcesses, processStates, os>>

StopSession ==
    \E pid \in SessionPids :
        /\ stopProcess(pid)
        /\ UNCHANGED <<config, closures, spawnCount, request>>
        /\ UNCHANGED mcpVars

SessionNext ==
    \/ StartSession
    \/ StdoutData
    \/ StderrData
    \/ ProcessExit
    \/ ExecuteTimeout
    \/ SendInputTimeout
    \/ SendInput
    \/ StopSession

SpecSession == SessionInit /\ [][SessionNext]_vars

\* the sessions with the events that the runtime delivers: a spawned process exits at
\* some time, and a timer that was set fires
SpecSessionLive ==
    /\ SessionInit
    /\ [][SessionNext]_vars
    /\ WF_vars(ProcessExit)
    /\ WF_vars(ExecuteTimeout)
    /\ WF_vars(SendInputTimeout)

--------------------------------------------------------------------------
(* The output classifiers on their own: every stdout text of at most MaxText *)
(* fragments                                                                 *)

MaxText == 3   \* longest stdout text, in fragments

\* the stderr texts
StderrTexts == {<<>>, <<"Err", "or:">>, <<"Err">>}

ClassifyInit ==
    /\ McpStart
    /\ config = SessionConfig
    /\ request \in [stdout : SeqsUpTo(Fragments, MaxText), stderr : StderrTexts]
    /\ runningProcesses = EmptyMap
    /\ processStates = EmptyMap
    /\ closures = <<>>
    /\ os = EmptyMap
    /\ spawnCount = 0
    /\ lastCall = NoCall

\* checkForErrors, isServerReady and isWaitingForInput applied to the texts
Classify ==
    /\ lastCall.op = "none"
    /\ lastCall' = [op |-> "classify", command |-> <<>>, pid |-> 0,
                    outcome |-> [error   |-> checkForErrors(request.stdout, request.stderr),
                                 ready   |-> isServerReady(request.stdout),
                                 waiting |-> isWaitingForInput(request.stdout)]]
    /\ UNCHANGED <<config, runningProcesses, processStates, closures, os, spawnCount, request>>
    /\ UNCHANGED mcpVars

ClassifyNext == Classify

SpecClassify == ClassifyInit /\ [][ClassifyNext]_vars

--------------------------------------------------------------------------
(* Properties of the allow-list matcher and of executeCommand's policy check *)

HasWildcardArg(pattern) == \E i \in 2..Len(pattern) : pattern[i] = WILDCARD

HasWildcardToken(pattern) == \E i \in 1..Len(pattern) : pattern[i] = WILDCARD

\* positional reading of a pattern: equal command, equal argument count, and every
\* pattern argument either `*` or equal to the requested argument at its position
PositionalMatch(pattern, line) ==
    /\ Len(pattern) = Len(line)
    /\ pattern[1] = line[1]
    /\ \A i \in 2..Len(pattern) : pattern[i] = WILDCARD \/ pattern[i] = line[i]

NoPatternMatches(line) ==
    \A i \in 1..Len(allowedCommandsOf(config)) :
        ~PatternAllows(allowedCommandsOf(config)[i], parseCommandPattern(line))

Checked == lastCall.op = "isCommandAllowed"

\* C1: an executeCommand call on a command line that no configured pattern matches
\* (an empty or undefined allow-list included) rejects with 'Command not allowed',
\* spawns nothing and leaves runningProcesses and processStates as they were.
C1_PolicyRejection ==
    [][\A command \in ServiceCommands :
          (executeCommand(command) /\ NoPatternMatches(command)) =>
              /\ lastCall'.outcome = "rejected: Command not allowed"
              /\ UNCHANGED <<runningProcesses, processStates, closures, os, spawnCount>>]_vars

\* C1 witness: a call was rejected by a non-empty allow-list while a session is tracked
C1_Witness ==
    /\ lastCall.op = "executeCommand"
    /\ lastCall.outcome = "rejected: Command not allowed"
    /\ Len(allowedCommandsOf(config)) > 0
    /\ DOMAIN runningProcesses # {}

\* C2: when some pattern of the allow-list has a `*` among its arguments and the same
\* command token as the requested line, the line is authorized, whatever its arguments.
C2_WildcardAnywhere ==
    Checked =>
        \A i \in 1..Len(allowedCommandsOf(config)) :
            LET pattern == allowedCommandsOf(config)[i] IN
            (HasWildcardArg(pattern) /\ pattern[1] = request[1])
                => lastCall.outcome = "allowed"

\* C2 witness: a pattern whose `*` is not its last argument authorized a line with a
\* different number of arguments
C2_Witness ==
    /\ Checked
    /\ lastCall.outcome = "allowed"
    /\ \E i \in 1..Len(allowedCommandsOf(config)) :
          LET pattern == allowedCommandsOf(config)[i] IN
          /\ HasWildcardArg(pattern)
          /\ pattern[Len(pattern)] # WILDCARD
          /\ pattern[1] = request[1]
          /\ Len(pattern) # Len(request)

\* C3: an allow-list none of whose patterns has a `*` token authorizes a line only if
\* the line equals one of the patterns token by token (same command, same number of
\* arguments, same argument at every position).
C3_LiteralExact ==
    (Checked /\ lastCall.outcome = "allowed"
       /\ \A i \in 1..Len(allowedCommandsOf(config)) :
             ~HasWildcardToken(allowedCommandsOf(config)[i]))
        => \E i \in 1..Len(allowedCommandsOf(config)) :
              allowedCommandsOf(config)[i] = request

\* C3 witness: a literal pattern with arguments authorized the line equal to it
C3_Witness ==
    /\ Checked
    /\ lastCall.outcome = "allowed"
    /\ Len(request) > 1
    /\ \A i \in 1..Len(allowedCommandsOf(config)) :
          ~HasWildcardToken(allowedCommandsOf(config)[i])

\* C4 as stated: an allow-list all of whose patterns contain a `*` token authorizes a
\* line only if the line has as many arguments as one of the patterns and equals it at
\* every position that is not `*`.
C4_Original ==
    (Checked /\ lastCall.outcome = "allowed"
       /\ \A i \in 1..Len(allowedCommandsOf(config)) :
             HasWildcardToken(allowedCommandsOf(config)[i]))
        => \E i \in 1..Len(allowedCommandsOf(config)) :
              PositionalMatch(allowedCommandsOf(config)[i], request)

\* C4 amended: an allow-list all of whose patterns contain a `*` token authorizes a
\* line only if the line's command token equals the command token of one of the
\* patterns; the number and the values of the arguments are not compared.
C4_WildcardCommandOnly ==
    (Checked /\ lastCall.outcome = "allowed"
       /\ \A i \in 1..Len(allowedCommandsOf(config)) :
             HasWildcardToken(allowedCommandsOf(config)[i]))
        => \E i \in 1..Len(allowedCommandsOf(config)) :
              allowedCommandsOf(config)[i][1] = request[1]

\* C4 witness: a wildcard pattern authorized a line that differs from it in the number
\* of arguments
C4_Witness ==
    /\ Checked
    /\ lastCall.outcome = "allowed"
    /\ Len(allowedCommandsOf(config)) > 0
    /\ \A i \in 1..Len(allowedCommandsOf(config)) :
          /\ HasWildcardToken(allowedCommandsOf(config)[i])
          /\ Len(allowedCommandsOf(config)[i]) # Len(request)


--------------------------------------------------------------------------
(* Properties of the MCP registry *)

\* C5: at most one activation routine (cleanup of the old clients and launch of the
\* new ones) is in flight at any time, for any number of overlapping callers.
C5_SingleFlight == Cardinality(InFlight) <= 1

Count(seq, x) == Cardinality({i \in 1..Len(seq) : seq[i] = x})

\* the two config lists hold the same entries, in any order
SameUpToOrder(s, t) ==
    /\ Len(s) = Len(t)
    /\ \A i \in 1..Len(s) : Count(s, s[i]) = Count(t, s[i])

\* C6: when two calls with the same config list overlap and both have returned, one
\* activation routine has run, every server was launched once, and both callers saw
\* the same active client list.
C6_OverlapSameConfig ==
    (/\ Len(callers) = 2
     /\ callers[2].concurrent
     /\ callers[1].servers = callers[2].servers
     /\ callers[1].pc = "done"
     /\ callers[2].pc = "done")
        => /\ Len(promises) = 1
           /\ launches = Len(callers[1].servers)
           /\ callers[1].seen = callers[2].seen

\* C6 witness: two overlapping calls with the same two servers have both returned and
\* see the clients that were started
C6_Witness ==
    /\ Len(callers) = 2
    /\ callers[2].concurrent
    /\ callers[1].servers = callers[2].servers
    /\ Len(callers[1].servers) = 2
    /\ callers[1].pc = "done"
    /\ callers[2].pc = "done"
    /\ Len(callers[2].seen) = 2

LookupHit(toolName) ==
    \E i \in 1..Len(clients) : \E n \in 1..Len(clients[i].tools) :
        toolHeap[clients[i].tools[n]] = toolName

NotFound == [found |-> FALSE, success |-> FALSE, error |-> TRUE, ids |-> <<>>]

\* C8: tryExecuteMcpTool for a tool name that no active client advertises returns
\* found = false and success = false and does not throw, when it is called without
\* servers as well as when it looks the name up among the active clients.
C8_NotFound ==
    [][/\ (/\ Len(callers') = Len(callers) + 1
           /\ callers'[Len(callers')].api = "tryExecuteMcpTool"
           /\ callers'[Len(callers')].servers = <<>>)
          => /\ callers'[Len(callers')].pc = "done"
             /\ callers'[Len(callers')].result = NotFound
       /\ \A c \in 1..Len(callers) :
            (/\ callers[c].api = "tryExecuteMcpTool"
             /\ callers[c].pc = "afterInit"
             /\ callers'[c].pc # "afterInit"
             /\ ~LookupHit(callers[c].toolName))
              => /\ callers'[c].pc = "done"
                 /\ callers'[c].result = NotFound]_vars

\* C8 witness: with an active client that advertises another name, the call returned
\* "not found"
C8_Witness ==
    \E c \in 1..Len(callers) :
        /\ callers[c].api = "tryExecuteMcpTool"
        /\ callers[c].pc = "done"
        /\ callers[c].result = NotFound
        /\ callers[c].servers # <<>>
        /\ \E i \in 1..Len(clients) : clients[i].advertised = << <<"t1">> >>

\* C9: when an active client advertises the tool, tryExecuteMcpTool invokes callTool
\* on the first such client, and when callTool settles it returns found = true, with
\* success = true if callTool returned and with success = false and the error if it
\* threw; the call itself never throws.
C9_WrappedOutcome ==
    [][\A c \in 1..Len(callers) :
         /\ (/\ callers[c].api = "tryExecuteMcpTool"
             /\ callers[c].pc = "afterInit"
             /\ callers'[c].pc # "afterInit"
             /\ LookupHit(callers[c].toolName))
              => /\ callers'[c].pc = "calling"
                 /\ \E i \in 1..Len(clients) :
                       /\ callers'[c].called = <<clients[i].gen, clients[i].idx>>
                       /\ \E n \in 1..Len(clients[i].tools) :
                             toolHeap[clients[i].tools[n]] = callers[c].toolName
                       /\ \A j \in 1..(i - 1) : \A n \in 1..Len(clients[j].tools) :
                             toolHeap[clients[j].tools[n]] # callers[c].toolName
         /\ (callers[c].pc = "calling" /\ callers'[c].pc # "calling")
              => /\ callers'[c].pc = "done"
                 /\ callers'[c].result.found
                 /\ callers'[c].result.success = (callers'[c].toolCall = "returned")
                 /\ callers'[c].result.error = (callers'[c].toolCall = "threw")]_vars

\* C9 witness: callTool threw and the call returned found = true, success = false
C9_Witness ==
    \E c \in 1..Len(callers) :
        /\ callers[c].pc = "done"
        /\ callers[c].toolCall = "threw"
        /\ callers[c].result.found
        /\ ~callers[c].result.success

\* C10: the descriptors that getMcpToolSpecs returns are those the active clients
\* advertised, each name prefixed with `mcp_` once, whatever the callers of earlier
\* calls have done to the descriptors they were given.
C10_DeepCopy ==
    [][\A c \in 1..Len(callers) :
         (/\ callers[c].api = "getMcpToolSpecs"
          /\ callers[c].pc = "afterInit"
          /\ callers'[c].pc = "done")
           => /\ Len(callers'[c].result.ids) = Len(advertisedOf(clients))
              /\ \A n \in 1..Len(callers'[c].result.ids) :
                    toolHeap'[callers'[c].result.ids[n]] = prefixed(advertisedOf(clients)[n])]_vars

\* C10 witness: the descriptor returned by a first call was overwritten by its caller,
\* and a second call with the same configs has returned the prefixed name
C10_Witness ==
    /\ Len(callers) = 2
    /\ callers[1].api = "getMcpToolSpecs"
    /\ callers[2].api = "getMcpToolSpecs"
    /\ callers[1].servers = callers[2].servers
    /\ callers[1].pc = "done"
    /\ callers[2].pc = "done"
    /\ Len(promises) = 1
    /\ \E n \in 1..Len(callers[1].result.ids) : toolHeap[callers[1].result.ids[n]] = Scribble
    /\ \E n \in 1..Len(callers[2].result.ids) :
          toolHeap[callers[2].result.ids[n]] = <<MCP_PREFIX, "t1">>

--------------------------------------------------------------------------
(* Properties of the interactive sessions of CommandService *)

HasErrorMarker(text) == Includes(text, <<"Err", "or:">>) \/ Includes(text, APP_CRASHED)

\* the text ends with a prompt: `: ` preceded by a character that is not a colon
EndsWithPrompt(text) ==
    /\ Len(text) >= 2
    /\ text[Len(text)] = COLON_SP
    /\ text[Len(text) - 1] # "or:"

TextAfterLastNewline(text) ==
    LET breaks == {m \in 1..Len(text) : text[m] = NL} IN
    IF breaks = {} THEN text
    ELSE SubSeq(text, (CHOOSE m \in breaks : \A n \in breaks : n <= m) + 1, Len(text))

Tracked(pid) == pid \in DOMAIN processStates /\ pid \in DOMAIN runningProcesses

TrackedNext(pid) == pid \in DOMAIN processStates' /\ pid \in DOMAIN runningProcesses'

Purged(pid) == pid \notin DOMAIN processStates' /\ pid \notin DOMAIN runningProcesses'

\* the step delivers a stdout chunk to call c
StdoutTo(c) ==
    /\ c <= Len(closures)
    /\ closures'[c].currentOutput # closures[c].currentOutput

NewChunk(c) ==
    SubSeq(closures'[c].currentOutput, Len(closures[c].currentOutput) + 1,
           Len(closures'[c].currentOutput))

\* C11: when stdout of a spawned process comes to end with a prompt (`: ` at the end of
\* the last line) while the executeCommand call is unsettled and the chunk carries no
\* error marker, the call resolves with requiresInput = true and the last line as
\* prompt, and the session stays in both tables; when the process then exits with
\* code 0 and no error marker in its output while a sendInput call on it is unsettled,
\* that call resolves and the session is removed from both tables.
C11_PromptRoundTrip ==
    [][\A c \in 1..Len(closures) :
        /\ (/\ closures[c].kind = "executeCommand"
            /\ closures[c].promise = "pending"
            /\ Tracked(closures[c].pid)
            /\ StdoutTo(c)
            /\ EndsWithPrompt(closures'[c].currentOutput)
            /\ ~HasErrorMarker(NewChunk(c)))
             => /\ closures'[c].promise = "resolved"
                /\ closures'[c].result.requiresInput
                /\ closures'[c].result.prompt =
                       TextAfterLastNewline(closures'[c].currentOutput)
                /\ TrackedNext(closures[c].pid)
        /\ (/\ closures[c].kind = "sendInput"
            /\ closures[c].promise = "pending"
            /\ os[closures[c].pid].listener = c
            /\ os[closures[c].pid].alive
            /\ ~os'[closures[c].pid].alive
            /\ os'[closures[c].pid].code = 0
            /\ ~HasErrorMarker(closures[c].currentOutput)
            /\ ~HasErrorMarker(closures[c].currentError))
             => /\ closures'[c].promise = "resolved"
                /\ Purged(closures[c].pid)]_vars

\* C11 witness: the call resolved on the prompt `Enter name: `, input was sent, the
\* process exited with code 0, the sendInput call resolved and the session is gone
C11_Witness ==
    /\ Len(closures) = 2
    /\ closures[1].promise = "resolved"
    /\ closures[1].result.requiresInput
    /\ closures[1].result.prompt = <<"Enter name", COLON_SP>>
    /\ closures[2].kind = "sendInput"
    /\ closures[2].promise = "resolved"
    /\ closures[2].currentOutput = <<NL, "Enter name", COLON_SP>>
    /\ ~os[SessionPid].alive
    /\ os[SessionPid].code = 0
    /\ SessionPid \notin DOMAIN processStates
    /\ SessionPid \notin DOMAIN runningProcesses

\* the step handles the 'exit' event of the process of pid
ExitHandled(pid) == pid \in DOMAIN os /\ os[pid].alive /\ ~os'[pid].alive

\* C12: whenever the exit event of the process of a tracked session is handled, the
\* session is removed from both tables, whatever the exit code and the output are.
C12_ExitPurges ==
    [][\A pid \in SessionPids :
          (ExitHandled(pid) /\ Tracked(pid)) => Purged(pid)]_vars

\* C13: sendInput attaches to a process and writes to its stdin only if pid has a
\* session whose isRunning is true; otherwise it fails with the 'no running process'
\* error and changes nothing.
C13_InputNeedsRunning ==
    [][\A pid \in SessionPids :
         /\ (pid \in DOMAIN os /\ os'[pid] # os[pid] /\ Len(closures') > Len(closures))
               => /\ pid \in DOMAIN processStates
                  /\ processStates[pid].isRunning
         /\ (/\ lastCall' # lastCall
             /\ lastCall'.op = "sendInput"
             /\ ~(pid \in DOMAIN processStates /\ processStates[pid].isRunning))
               => /\ lastCall'.outcome = "rejected: No running process found"
                  /\ UNCHANGED <<runningProcesses, processStates, closures, os>>]_vars

\* C14: stopProcess on a tracked session signals the process group once and either
\* removes pid from runningProcesses and processStates (the signal was delivered) or
\* rejects with 'Failed to stop process' and leaves both tables as they were.
C14_StopProcess ==
    [][\A pid \in SessionPids :
         (/\ lastCall' # lastCall
          /\ lastCall'.op = "stopProcess"
          /\ lastCall'.pid = pid
          /\ pid \in DOMAIN runningProcesses)
            => \/ /\ lastCall'.outcome = "resolved"
                  /\ os'[pid].signals = 1
                  /\ Purged(pid)
               \/ /\ lastCall'.outcome = "rejected: Failed to stop process"
                  /\ UNCHANGED <<runningProcesses, processStates>>]_vars

\* C14 witness: process.kill threw on a tracked session, which is still in both tables
C14_Witness ==
    /\ lastCall.op = "stopProcess"
    /\ lastCall.outcome = "rejected: Failed to stop process"
    /\ Tracked(SessionPid)
    /\ os[SessionPid].signals = 0

\* C15: every executeCommand call that passed the allow-list check and spawned its
\* process is settled (resolved or rejected) at some time, given that the exit event
\* and the timers fire, under every interleaving with stopProcess and sendInput.
C15_EventuallySettled ==
    (Len(closures) >= 1) ~> (Len(closures) >= 1 /\ closures[1].promise # "pending")

Classified == lastCall.op = "classify"

\* C16: checkForErrors returns true when either stream contains an error marker, and
\* returns false for a stdout that reports `app crashed` together with `waiting for
\* file changes` when neither stream contains another error marker.
C16_RecoverySuppression ==
    Classified =>
        /\ (HasErrorMarker(request.stdout) \/ HasErrorMarker(request.stderr))
              => (lastCall.outcome.error \/ Includes(request.stdout, WAITING_FOR_FILE_CHANGES))
        /\ (/\ Includes(request.stdout, APP_CRASHED)
            /\ Includes(request.stdout, WAITING_FOR_FILE_CHANGES)
            /\ ~Includes(request.stdout, <<"Err", "or:">>)
            /\ ~Includes(request.stderr, <<"Err", "or:">>))
              => ~lastCall.outcome.error

\* the step runs the timer callback of call c
TimerFires(c) == closures[c].timer /\ ~closures'[c].timer

ReadyText(text) ==
    \/ Includes(toLowerCase(text), <<"ready">>)
    \/ Includes(text, WAITING_FOR_FILE_CHANGES)

\* C17: when the five-minute timer of an executeCommand call fires and the call is
\* unsettled (its session still in the tables), it resolves if stdout holds a server-ready keyword or `waiting for file
\* changes` and rejects otherwise; when the call has already resolved as waiting for
\* input or as server-ready, the timer leaves the session in both tables.
C17_TimerOutcome ==
    [][\A c \in 1..Len(closures) :
         (closures[c].kind = "executeCommand" /\ TimerFires(c))
           => /\ (closures[c].promise = "pending" /\ Tracked(closures[c].pid))
                   => IF ReadyText(closures[c].currentOutput)
                      THEN closures'[c].promise = "resolved"
                      ELSE closures'[c].promise = "rejected"
              /\ (closures[c].promise = "resolved" /\ Tracked(closures[c].pid))
                   => UNCHANGED <<runningProcesses, processStates>>]_vars

\* what the listeners make of a cumulative stdout text when it is looked at as a whole
WholeTextOutcome(text) ==
    IF checkForErrors(text, <<>>) THEN "rejected"
    ELSE IF isWaitingForInput(text).isWaiting \/ isServerReady(text) THEN "resolved"
    ELSE "pending"

\* C18: the outcome of a stdout data event depends on the cumulative text only, not on
\* the chunks it arrived in: an unsettled executeCommand call is rejected as soon as
\* the cumulative stdout holds an error marker, and is resolved as soon as it ends with
\* a prompt or holds a server-ready keyword.
C18_ChunkingIrrelevant ==
    [][\A c \in 1..Len(closures) :
         (/\ closures[c].kind = "executeCommand"
          /\ closures[c].promise = "pending"
          /\ Tracked(closures[c].pid)
          /\ os[closures[c].pid].listener = c
          /\ StdoutTo(c))
           => closures'[c].promise = WholeTextOutcome(closures'[c].currentOutput)]_vars

--------------------------------------------------------------------------
(* Properties of the MCP registry: failures *)

EmptyBaseline(hash, length, names) ==
    /\ hash = [kind |-> "empty", json |-> <<>>]
    /\ length = 0
    /\ names = <<>>

\* C19: when initMcpFromAgentConfig rejects because the configuration was found
\* invalid, the client list is empty, the cached hash, count and names are those of
\* the empty configuration and initializationInProgress is cleared; and a call with a
\* non-empty config list made while the cache is in that state is never returned at
\* once as unchanged: it starts an activation, or waits for the one in flight.
C19_ValidationReset ==
    [][/\ \A c \in 1..Len(callers) :
            (callers[c].pc = "awaitOwn" /\ callers'[c].pc = "thrown")
              => /\ clients' = <<>>
                 /\ EmptyBaseline(lastMcpServerConfigHash', lastMcpServerLength',
                                  lastMcpServerNames')
                 /\ initializationInProgress' = 0
       /\ (/\ Len(callers') = Len(callers) + 1
           /\ callers'[Len(callers')].servers # <<>>
           /\ EmptyBaseline(lastMcpServerConfigHash, lastMcpServerLength,
                            lastMcpServerNames))
              => /\ callers'[Len(callers')].pc \in {"awaitOwn", "waiting"}
                 /\ initializationInProgress = 0
                       => /\ Len(promises') = Len(promises) + 1
                          /\ promises'[Len(promises')].state = "cleanup"]_vars

\* C19 witness: a call with an invalid configuration was rejected, the cache is at
\* the baseline, and the call that followed has started a new activation
C19_Witness ==
    /\ Len(callers) = 2
    /\ callers[1].pc = "thrown"
    /\ callers[2].pc = "awaitOwn"
    /\ ~callers[2].concurrent
    /\ callers[2].servers # <<>>
    /\ Len(promises) = 2
    /\ promises[1].state = "rejected"
    /\ promises[2].state = "cleanup"
    /\ lastMcpServerLength = 0
    /\ clients = <<>>

\* C20: every server of the list is launched; when the launches have settled the
\* client list holds, in the order of the config list, clients of servers of the list
\* (a server whose launch failed is left out), the cache holds the hash, the count and
\* the names of the whole list, and initMcpFromAgentConfig returns without error; a
\* call with the same list that follows a call which ran alone launches nothing.
C20_PartialLaunch ==
    [][/\ \A p \in 1..Len(promises) :
            /\ (promises[p].state = "cleanup" /\ promises'[p].state = "launching")
                  => launches' = launches + Len(promises[p].servers)
            /\ (promises[p].state = "launching" /\ promises'[p].state = "resolved")
                  => /\ \A i \in 1..Len(clients') :
                          /\ clients'[i].idx \in 1..Len(promises[p].servers)
                          /\ clients'[i].name = promises[p].servers[clients'[i].idx].name
                          /\ \A j \in 1..(i - 1) : clients'[j].idx < clients'[i].idx
                     /\ lastMcpServerLength' = Len(promises[p].servers)
                     /\ lastMcpServerNames' = SortNames(promises[p].servers)
                     /\ lastMcpServerConfigHash' = generateConfigHash(promises[p].servers)
       /\ \A c \in 1..Len(callers) :
            (/\ callers[c].pc = "awaitOwn"
             /\ callers'[c].pc # "awaitOwn"
             /\ promises[callers[c].promise].state = "resolved")
               => callers'[c].pc = "done"
       /\ (/\ Len(callers) >= 1
           /\ Len(callers') = Len(callers) + 1
           /\ \A d \in 1..Len(callers) : Finished(callers[d])
           /\ callers[Len(callers)].pc = "done"
           /\ ~callers[Len(callers)].concurrent
           /\ Len(promises) >= 1
           /\ promises[Len(promises)].owner = Len(callers)
           /\ callers'[Len(callers')].servers = callers[Len(callers)].servers)
              => /\ callers'[Len(callers')].pc = "done"
                 /\ UNCHANGED <<clients, promises, launches>>]_vars

\* C20 witness: of two servers only the second one started; the call returned, and the
\* call with the same list that followed it returned without launching anything
C20_Witness ==
    /\ Len(callers) = 2
    /\ callers[1].pc = "done"
    /\ callers[2].pc = "done"
    /\ ~callers[2].concurrent
    /\ callers[1].servers = callers[2].servers
    /\ Len(callers[1].servers) = 2
    /\ Len(promises) = 1
    /\ launches = 2
    /\ Len(clients) = 1
    /\ clients[1].idx = 2

--------------------------------------------------------------------------
(* Properties of the MCP registry: change detection *)

\* the entries of an env object, none for an absent one
EnvEntries(server) ==
    IF server.env.defined
    THEN {server.env.entries[k] : k \in 1..Len(server.env.entries)}
    ELSE {}

\* name, command, arguments and env entries of one server
Identity(server) ==
    <<server.name, server.command, server.args, EnvEntries(server)>>

\* the two lists hold, position by position, servers of the same identity
SameIdentities(s, t) ==
    /\ Len(s) = Len(t)
    /\ \A i \in 1..Len(s) : Identity(s[i]) = Identity(t[i])

\* some identity occurs in one of the lists and not in the other, or not as often
DifferentIdentities(s, t) ==
    \/ Len(s) # Len(t)
    \/ \E i \in 1..Len(s) :
          Cardinality({j \in 1..Len(s) : Identity(s[j]) = Identity(s[i])})
              # Cardinality({j \in 1..Len(t) : Identity(t[j]) = Identity(s[i])})

\* the step is a call of initMcpFromAgentConfig made after a call that returned normally
CallAfterReturn ==
    /\ Len(callers) >= 1
    /\ Len(callers') = Len(callers) + 1
    /\ callers[Len(callers)].pc = "done"

\* C21: change detection depends on name, command, args and non-empty env only.  A
\* call of initMcpFromAgentConfig whose list differs from the list of the call before
\* it (which returned normally) in descriptions or in absent against empty env only
\* returns at once, starts no activation and launches nothing; a call whose list
\* differs in a name, a command, an argument or an env entry starts an activation.
C21_IdentityOnly ==
    [][CallAfterReturn =>
        LET before == callers[Len(callers)].servers
            now == callers'[Len(callers')].servers IN
        /\ SameIdentities(before, now) =>
              /\ callers'[Len(callers')].pc = "done"
              /\ promises' = promises
              /\ launches' = launches
              /\ clients' = clients
        /\ DifferentIdentities(before, now) =>
              /\ callers'[Len(callers')].pc = "awaitOwn"
              /\ Len(promises') = Len(promises) + 1
              /\ promises'[Len(promises')].servers = now]_vars

\* after the activation of a list, a list that differs from it in the description only,
\* or in an empty env object against none, was passed and nothing was activated
C21_Witness ==
    /\ Len(callers) = 2
    /\ callers[1].servers = <<BaseServer>>
    /\ promises[1].state = "resolved"
    /\ \/ /\ callers[2].servers = <<[BaseServer EXCEPT !.description = "d2"]>>
          /\ callers[2].pc = "done"
          /\ Len(promises) = 1
       \/ /\ callers[2].servers = <<[BaseServer EXCEPT !.env = Env(<<>>)]>>
          /\ callers[2].pc = "done"
          /\ Len(promises) = 1

--------------------------------------------------------------------------
(* Properties of the MCP registry: tool names *)

\* the step in which getMcpToolSpecs call c returns its descriptors
SpecsReturned(c) ==
    /\ c \in 1..Len(callers)
    /\ callers[c].api = "getMcpToolSpecs"
    /\ callers[c].pc = "afterInit"
    /\ callers'[c].pc = "done"

\* where the descriptors of client i begin in clients.flatMap(({ client }) => client.tools)
OffsetOf(i) == Len(toolIdsOf(SubSeq(clients, 1, i - 1)))

\* C22: the tool names returned by getMcpToolSpecs do not collide across servers.  When
\* two active servers advertise a tool of the same name, the two descriptors that
\* getMcpToolSpecs returns for them carry different names.
C22_NoCollision ==
    [][\A c \in 1..Len(callers) : SpecsReturned(c) =>
          \A i \in 1..Len(clients), j \in 1..Len(clients) :
              \A k \in 1..Len(clients[i].tools), l \in 1..Len(clients[j].tools) :
                  (/\ i # j
                   /\ toolHeap[clients[i].tools[k]] # <<>>
                   /\ toolHeap[clients[i].tools[k]] = toolHeap[clients[j].tools[l]])
                  => toolHeap'[callers'[c].result.ids[OffsetOf(i) + k]]
                        # toolHeap'[callers'[c].result.ids[OffsetOf(j) + l]]]_vars

--------------------------------------------------------------------------
(* Properties of the tool dispatcher *)

Dispatched == lastCall.op = "executeTool"

IsExecuteCommand(input) == input.type = <<"executeCommand">>

\* C23: executeTool raises 'Unknown tool type' for a type that is neither an MCP tool
\* nor a built-in; for type executeCommand an input carrying (pid, stdin) is routed to
\* the stdin path, an input carrying (command, cwd) to the spawn path, and every other
\* combination of fields raises 'Invalid input format'.
C23_Routing ==
    Dispatched =>
        /\ (~isMcpTool(request.type)
            /\ ~(Len(request.type) = 1 /\ request.type[1] \in BuiltinTools))
              => lastCall.outcome.error = "Unknown tool type"
        /\ IsExecuteCommand(request) =>
              IF request.pid.present /\ request.stdin.present
              THEN lastCall.outcome.route = "sendInput"
              ELSE IF request.command.present /\ request.cwd.present
              THEN lastCall.outcome.route = "spawn"
              ELSE lastCall.outcome.error = "Invalid input format for executeCommand"

--------------------------------------------------------------------------
(* Properties of the read accessors of CommandService *)

\* the step is a call of an accessor, or a change its caller makes to the array returned
AccessorStep ==
    /\ lastCall'.op \in {"getRunningProcesses", "getAllowedCommands"}
    /\ lastCall' # lastCall

\* C24: getRunningProcesses and getAllowedCommands change no state of the service.  A
\* call of either leaves the live-session tables and the configured allow-list as they
\* were, and so does a change made to the array returned: a later call returns what
\* the call would have returned before the change.
C24_PureAccessors ==
    [][AccessorStep =>
          /\ runningProcesses' = runningProcesses
          /\ processStates' = processStates
          /\ config' = config
          /\ getRunningProcesses' = getRunningProcesses
          /\ getAllowedCommands' = getAllowedCommands]_vars

\* the caller has changed the array of a non-empty allow-list that getAllowedCommands
\* returned, while a session was tracked
C24_Witness ==
    /\ lastCall.op = "getAllowedCommands"
    /\ lastCall.outcome.mutated
    /\ lastCall.outcome.items # allowedCommandsOf(config)
    /\ Len(allowedCommandsOf(config)) > 0
    /\ DOMAIN runningProcesses # {}

--------------------------------------------------------------------------
(* Properties of the prompt detection *)

\* index of the first fragment of the line that fragment i is on
LineStart(output, i) ==
    IF \E m \in 1..(i - 1) : output[m] = NL
    THEN (CHOOSE m \in 1..(i - 1) :
              output[m] = NL /\ \A n \in (m + 1)..(i - 1) : output[n] # NL) + 1
    ELSE 1

\* the line ends with `: `, or holds an inquirer question
IsPromptLine(line) ==
    \/ line # <<>> /\ line[Len(line)] = COLON_SP
    \/ \E i \in 1..Len(line) : InquirerAt(line, i)

\* the lines of the text that are prompts
PromptLines(output) ==
    {line \in {SubSeq(output, LineStart(output, i), LineEnd(output, i)) :
                  i \in {m \in 1..Len(output) : output[m] # NL}} :
        IsPromptLine(line)}

\* C25: isWaitingForInput considers the last line of the accumulated text only.  A text
\* whose last line is no prompt is classified as not waiting, whatever its earlier
\* lines are, and the prompt extracted is text of a line that matched.
C25_LastLineOnly ==
    Classified =>
        LET waiting == lastCall.outcome.waiting IN
        /\ ~IsPromptLine(LastLine(request.stdout)) => ~waiting.isWaiting
        /\ waiting.isWaiting =>
              \E line \in PromptLines(request.stdout) : Includes(line, waiting.prompt)

--------------------------------------------------------------------------
(* Properties of the interactive sessions: failures and purged sessions *)

\* the step delivers a stderr chunk to call c
StderrTo(c) ==
    /\ c <= Len(closures)
    /\ closures'[c].currentError # closures[c].currentError

NewErrorChunk(c) ==
    SubSeq(closures'[c].currentError, Len(closures[c].currentError) + 1,
           Len(closures'[c].currentError))

\* the step delivers to call c a chunk on which checkForErrors finds a marker
ErrorChunkTo(c) ==
    \/ StdoutTo(c) /\ checkForErrors(NewChunk(c), <<>>)
    \/ StderrTo(c) /\ checkForErrors(<<>>, NewErrorChunk(c))

\* C26: whenever an error marker is detected on a stdout or stderr chunk while the
\* call that listens, an executeCommand or a sendInput call, is unsettled and its
\* session tracked, the call is rejected with `Command failed` and the session is
\* removed from both tables.
C26_ErrorChunkFails ==
    [][\A c \in 1..Len(closures) :
         (/\ closures[c].promise = "pending"
          /\ Tracked(closures[c].pid)
          /\ os[closures[c].pid].listener = c
          /\ ErrorChunkTo(c))
           => /\ closures'[c].promise = "rejected"
              /\ closures'[c].result.error = "Command failed"
              /\ Purged(closures[c].pid)]_vars

--------------------------------------------------------------------------
(* Properties of the MCP registry: validation *)

\* an entry has an empty command, or a command or arguments that are no strings
Malformed(servers) ==
    \E i \in 1..Len(servers) :
        \/ servers[i].command \in {"", NotAString}
        \/ \E k \in 1..Len(servers[i].args) : servers[i].args[k] = NotAString

\* the cleanup of routine p has settled in this step and the routine has gone on
Validated(p) ==
    /\ promises[p].state = "cleanup"
    /\ promises'[p].state # "cleanup"

\* C27: activation validates every config before it launches anything.  For a config
\* list with an entry whose command is empty or whose command or arguments are
\* malformed the routine fails with `Invalid MCP server configuration` and no server
\* is launched.
C27_ValidateBeforeLaunch ==
    [][\A p \in 1..Len(promises) :
         (Validated(p) /\ Malformed(promises[p].servers))
            => /\ promises'[p].state = "rejected"
               /\ launches' = launches]_vars

--------------------------------------------------------------------------
(* Properties of the MCP registry: the empty config list *)

\* the step is a call of getMcpToolSpecs or tryExecuteMcpTool with an empty config
\* list that returns, made while servers are active and no activation is in flight
EmptyCallReturns ==
    /\ Len(callers') = Len(callers) + 1
    /\ callers'[Len(callers')].api \in {"getMcpToolSpecs", "tryExecuteMcpTool"}
    /\ callers'[Len(callers')].servers = <<>>
    /\ callers'[Len(callers')].pc = "done"
    /\ clients # <<>>
    /\ InFlight = {}

\* C28: when getMcpToolSpecs or tryExecuteMcpTool has been called with an empty config
\* list after the activation of a non-empty one, the connections that were active have
\* been cleaned up, none of them is kept, and the registry records the empty state.
C28_EmptyDeactivates ==
    [][EmptyCallReturns =>
          /\ clients' = <<>>
          /\ lastMcpServerLength' = 0
          /\ \A i \in 1..Len(clients) : clients[i].cleanupCalls >= 1]_vars


\* C29: every sendInput call that found a session is settled, resolved or rejected, at
\* the latest when its five-second timer has fired, under every interleaving with
\* stopProcess, with the exit of the process and with another sendInput call on the pid.
C29_SettledByTimer ==
    \A c \in InputCalls : ~closures[c].timer => closures[c].promise # "pending"


\* C30: once a pid has been purged from the live-session tables, by stopProcess or by
\* the completion of a call, no later stdout, stderr, exit or timer event of the calls
\* made for that pid puts it back or changes either table.
C30_PurgedStaysPurged ==
    [][\A pid \in DOMAIN os :
          (pid \notin DOMAIN processStates /\ pid \notin DOMAIN runningProcesses)
             => /\ processStates' = processStates
                /\ runningProcesses' = runningProcesses]_vars

\* the session was purged by stopProcess while a sendInput call was unsettled; after
\* that a data event, the timer of the executeCommand call and the exit event were
\* handled, and the session is in neither table
C30_Witness ==
    /\ SessionPid \in DOMAIN os
    /\ SessionPid \notin DOMAIN processStates
    /\ SessionPid \notin DOMAIN runningProcesses
    /\ os[SessionPid].signals = 1
    /\ ~os[SessionPid].alive
    /\ os[SessionPid].data >= 1
    /\ Len(closures) = 2
    /\ closures[1].promise = "pending"
    /\ ~closures[1].timer
    /\ closures[2].currentOutput # closures[2].state.stdout

--------------------------------------------------------------------------
(* Properties of the interactive sessions: the tables and the processes *)

\* C31: a session is removed from the live-session tables only when its process has
\* exited or was sent a signal by stopProcess: every spawned process that still runs
\* and was not signalled is in both tables, so that getRunningProcesses lists it and
\* stopProcess reaches it.
C31_RemovedOnlyWhenGone ==
    \A pid \in DOMAIN os :
        (os[pid].alive /\ os[pid].signals = 0)
            => (pid \in DOMAIN processStates /\ pid \in DOMAIN runningProcesses)


\* call c is resolved in this step
ResolvedNow(c) ==
    /\ c <= Len(closures)
    /\ closures[c].promise = "pending"
    /\ closures'[c].promise = "resolved"

\* the step handles the exit event of the process of pid
ExitStep(pid) == pid \in DOMAIN os /\ os[pid].alive /\ ~os'[pid].alive

\* C32: a result with requiresInput = true is delivered by executeCommand or sendInput
\* only while the process runs and its session is in the live table; a result that is
\* produced by the handling of the exit event never reports requiresInput = true.
C32_PromptOnlyWhileRunning ==
    [][\A c \in 1..Len(closures) :
         (ResolvedNow(c) /\ closures'[c].result.requiresInput)
            => /\ ~ExitStep(closures[c].pid)
               /\ os'[closures[c].pid].alive
               /\ TrackedNext(closures[c].pid)]_vars

--------------------------------------------------------------------------
(* Properties of the MCP registry: the life of a client *)

\* client i of the active list is no longer in the list after the step
Dropped(i) ==
    \A j \in 1..Len(clients') : identities(clients')[j] # identities(clients)[i]

\* C33: every client that was launched is in the active client list until cleanup has
\* been invoked on it, and cleanup is invoked at most once on a client, in every
\* interleaving of initMcpFromAgentConfig calls.  (A client that has left the list can
\* no longer be cleaned up: cleanup is invoked on the clients of the list only.)
C33_ClientLifecycle ==
    [][/\ \A i \in 1..Len(clients) : Dropped(i) => clients[i].cleanupCalls >= 1
       /\ \A j \in 1..Len(clients') : clients'[j].cleanupCalls <= 1]_vars


\* getMcpToolSpecs or tryExecuteMcpTool call c reads `clients` in this step, after its
\* `await initMcpFromAgentConfig(...)`
ReadsClients(c) ==
    /\ c \in 1..Len(callers)
    /\ callers[c].pc = "afterInit"
    /\ callers'[c].pc # "afterInit"

\* C34: when getMcpToolSpecs or tryExecuteMcpTool reads the active client list after
\* its initMcpFromAgentConfig returned, the list holds clients that were activated for
\* the config list of that caller, and cleanup has not been invoked on any of them,
\* also when a caller with another config list overlaps.
C34_ReadsOwnClients ==
    [][\A c \in 1..Len(callers) : ReadsClients(c) =>
          \A i \in 1..Len(clients) :
              /\ clients[i].cleanupCalls = 0
              /\ generateConfigHash(promises[clients[i].gen].servers)
                    = generateConfigHash(callers[c].servers)]_vars


\* C35: after every operation and every event handler of CommandService,
\* runningProcesses and processStates hold the same pids.
C35_SamePids == DOMAIN runningProcesses = DOMAIN processStates

\* the session was registered in both tables, a sendInput call was made on it, and the
\* cleanup of the executeCommand call has removed it from both
C35_Witness ==
    /\ SessionPid \in DOMAIN os
    /\ Len(closures) = 2
    /\ closures[1].isCompleted
    /\ closures[1].promise = "rejected"
    /\ DOMAIN runningProcesses = {}
    /\ DOMAIN processStates = {}


\* C36: for every tracked session the stdout and the stderr text stored in its process
\* state are the concatenation, in the order of arrival, of the chunks that the process
\* has written to that stream since it was spawned, after every sequence of data events
\* handled by the listeners of executeCommand and of sendInput.
C36_StoredOutputComplete ==
    \A pid \in DOMAIN processStates :
        /\ processStates[pid].output.stdout = os[pid].stdout
        /\ processStates[pid].output.stderr = os[pid].stderr

--------------------------------------------------------------------------
(* Properties of the per-agent configuration *)

\* C37: executeTool takes the configuration of the selected agent from the same set of
\* agents for both backends.  Whenever the selected agent is found for executeCommand,
\* among the custom or the shared agents, so that its allowedCommands are used, the
\* mcpServers handed to tryExecuteMcpTool are the mcpServers of that agent.
C37_SameAgentForBothBackends ==
    lastCall.op = "executeTool" =>
        LET currentAgent == findAgentById(request, request.selectedAgentId) IN
        (request.selectedAgentId # "" /\ currentAgent.found)
            => /\ lastCall.outcome.allowedCommands = currentAgent.agent.allowedCommands
               /\ lastCall.outcome.mcpServers.servers = currentAgent.agent.mcpServers

\* how often the message m occurs in the list
Occurrences(messages, m) == Cardinality({i \in 1 .. Len(messages) : messages[i] = m})

\* C38: once every addMessage call made on an existing session has completed,
\* overlapping calls included, the stored session holds every added message exactly
\* once and the metadata's messageCount is the number of stored messages.
C38_EveryMessageStoredOnce ==
    (/\ request.sessionFile.exists
     /\ \A c \in AddCalls : request.calls[c].pc = "done")
        => /\ \A c \in AddCalls : Occurrences(request.sessionFile.messages, c) = 1
           /\ request.metadata.messageCount = Len(request.sessionFile.messages)

==========================================================================
